---------------------------- MODULE Spec2Model ----------------------------
(***************************************************************************)
(* Authentication and per-resource authorization of the TODO service.      *)
(*                                                                         *)
(* The repository holds three generations of the task/label routes:        *)
(*   "guard"  src/api/v1/*.py on top of crud/*.py and backend/api/deps.py  *)
(*            (fetch the document, 404 when absent, 403 when not owned);   *)
(*   "inline" src/backend/api/v1/*.py (queries scoped by user_id, 400 for  *)
(*            ids that are not object ids, cascade on label deletion);     *)
(*   "app"    src/app/api/v1/*.py on top of app/crud/*.py (queries scoped  *)
(*            by user_id, usage guard on label deletion).                  *)
(* A deployment runs one generation; `variant` names it and never changes. *)
(*                                                                         *)
(* Time is counted in minutes.  Object ids are positive integers handed    *)
(* out in increasing order and never reused; 0 stands for an id string     *)
(* that is not a well-formed object id (the tests use 'nonexistent').      *)
(* A list of label ids is kept as the set of its members: the code only    *)
(* tests membership, pulls a member or replaces the whole list.            *)
(***************************************************************************)
EXTENDS Integers, Sequences, FiniteSets, TLC

VARIABLES
    variant,      \* which generation of the routes is deployed
    users,        \* db.users : user id -> document
    labels,       \* db.labels: label id -> document
    tasks,        \* db.tasks : task id -> document
    next_user,    \* next fresh ObjectId of each collection
    next_label,
    next_task,
    wallet,       \* the bearer token the client holds, with its provenance
    now,          \* datetime.utcnow(), in minutes
    resp,         \* the last call and its outcome
    cache,        \* core/cache.py: the CacheManager and the Redis server behind it
    environment,  \* os.getenv("ENVIRONMENT")
    error_tracker,\* core/error_handling.py: the global ErrorTracker
    retry,        \* core/error_handling.py: a handle_async_error call in progress
    limiter,      \* middleware/rate_limiting.py: redis_client and the counters it keeps
    inflight,     \* requests between two of their database calls
    mongo         \* core/db.py: the module's database global and the calls in progress

vars == <<variant, users, labels, tasks, next_user, next_label, next_task,
          wallet, now, resp, cache, environment, error_tracker, retry,
          limiter, inflight, mongo>>

\* the components beside the routes, which no route handler touches
machinery == <<cache, environment, error_tracker, retry, limiter, inflight, mongo>>

store == <<users, labels, tasks, next_user, next_label, next_task>>

----------------------------------------------------------------------------
(* Bounds of the model *)

MaxTime == 2
MaxUsers == 2
MaxLabels == 4
MaxTasks == 1

\* JWT_EXPIRE_MINUTES as configured for the model (the code's default is 30)
ACCESS_TOKEN_EXPIRE_MINUTES == 1
jwt_expire_minutes == 1

----------------------------------------------------------------------------
(* Values *)

Variants == {"guard", "inline", "app"}
Emails == {"alice@example.com", "bob@example.com"}
demo_email == "demo@example.com"
Passwords == {"Secret123!", "wrong"}
LabelNames == {"Personal", "Work"}

IdSub(u) == [kind |-> "id", id |-> u]
EmailSub(e) == [kind |-> "email", email |-> e]

\* Strings a client can send that are not tokens of this service
GarbageToken == [form |-> "garbage"]      \* "invalid_token"
EmptyToken == [form |-> "empty"]          \* ""
NoneToken == [form |-> "none"]            \* the None argument
Tampered(t) == [t EXCEPT !.sig = "invalid"]

\* timedelta arguments: <<>> is None, <<d>> is timedelta(minutes=d)
NoDelta == <<>>
Delta(d) == <<d>>

Insert(f, k, v) == [x \in DOMAIN f \cup {k} |-> IF x = k THEN v ELSE f[x]]
Remove(f, k) == [x \in DOMAIN f \ {k} |-> f[x]]
EmptyColl == [x \in {} |-> FALSE]

----------------------------------------------------------------------------
(* Token service: backend/core/security.py *)

\* jwt.encode(to_encode, SECRET_KEY): data is <<>> or <<sub>>
jwt_encode(data, expire, type) ==
    [form |-> "jwt", sig |-> "valid", sub |-> data, exp |-> expire, typ |-> type]

create_access_token(data, expires_delta, t) ==
    LET expire == IF expires_delta # NoDelta /\ expires_delta[1] # 0
                  THEN t + expires_delta[1]
                  ELSE t + ACCESS_TOKEN_EXPIRE_MINUTES
    IN  jwt_encode(data, expire, "access")

\* a decoder that does not look at the exp claim
jwt_decode_ignoring_exp(token, t) ==
    IF token.form = "none" THEN [kind |-> "AttributeError"]
    ELSE IF token.form # "jwt" THEN [kind |-> "JWTError"]
    ELSE IF token.sig # "valid" THEN [kind |-> "JWTError"]
    ELSE [kind |-> "payload", sub |-> token.sub, typ |-> token.typ]

\* jwt.decode(token, SECRET_KEY, algorithms=[ALGORITHM]) at time t
jwt_decode(token, t) ==
    IF token.form = "none" THEN [kind |-> "AttributeError"]
    ELSE IF token.form # "jwt" THEN [kind |-> "JWTError"]
    ELSE IF token.sig # "valid" THEN [kind |-> "JWTError"]
    ELSE IF token.exp < t THEN [kind |-> "JWTError"]
    ELSE [kind |-> "payload", sub |-> token.sub, typ |-> token.typ]

\* Result: [kind |-> "sub", sub |-> s], [kind |-> "None"] or a raised exception
verify_token(token, t) ==
    LET payload == jwt_decode(token, t)
    IN  IF payload.kind = "JWTError" THEN [kind |-> "None"]
        ELSE IF payload.kind # "payload" THEN [kind |-> "raise", exc |-> payload.kind]
        ELSE IF payload.sub = <<>> THEN [kind |-> "None"]
        ELSE [kind |-> "sub", sub |-> payload.sub[1]]

----------------------------------------------------------------------------
(* The clock *)

Tick ==
    /\ now < MaxTime
    /\ now' = now + 1
    /\ UNCHANGED <<variant, store, wallet, resp>>

\* CacheManager.__init__: redis_client is set when the ping succeeded.  redis
\* is the server's keyspace (key -> serialized value and expiry time, <<>>
\* for none); written remembers the last successful set of each key.
CacheManager_init(redis_available) ==
    [redis_client |-> redis_available, redis |-> EmptyColl,
     memory_cache |-> EmptyColl, written |-> EmptyColl]

\* ErrorTracker.__init__
ErrorTracker_init == [error_counts |-> EmptyColl, recent_errors |-> <<>>]

NoRetry == [running |-> FALSE]

MachineryInit ==
    /\ cache = CacheManager_init(FALSE)
    /\ environment = "production"
    /\ error_tracker = ErrorTracker_init
    /\ retry = NoRetry
    /\ limiter = [redis_client |-> FALSE, counters |-> EmptyColl, made |-> EmptyColl]
    /\ inflight = EmptyColl
    /\ mongo = [database |-> "None", ready |-> {}, calls |-> EmptyColl,
               held |-> EmptyColl]

NoWallet == [token |-> EmptyToken, src |-> "none", iat |-> 0, delta |-> NoDelta,
             data |-> <<>>, owner |-> {}]
NoResp == [op |-> "none"]

----------------------------------------------------------------------------
(* Token service driven directly, as the security tests do *)

TokenSubjects == {IdSub(1), EmailSub("alice@example.com")}
TokenData == {<<>>} \cup {<<s>> : s \in TokenSubjects}
TokenDeltas == {NoDelta} \cup {Delta(d) : d \in -1..2}

call_create_access_token ==
    \E data \in TokenData, delta \in TokenDeltas :
        /\ wallet' = [token |-> create_access_token(data, delta, now),
                      src |-> "create_access_token", iat |-> now,
                      delta |-> delta, data |-> data, owner |-> {}]
        /\ UNCHANGED <<variant, store, now, resp>>

\* the client alters the token it holds, or sends something else
call_forge ==
    \E t \in {GarbageToken, EmptyToken, NoneToken}
             \cup (IF wallet.token.form = "jwt" THEN {Tampered(wallet.token)} ELSE {}) :
        /\ wallet' = [NoWallet EXCEPT !.token = t, !.src = "client"]
        /\ UNCHANGED <<variant, store, now, resp>>

call_verify_token ==
    /\ resp' = [op |-> "verify_token", at |-> now, call |-> wallet,
                result |-> verify_token(wallet.token, now)]
    /\ UNCHANGED <<variant, store, wallet, now>>

TokenInit ==
    /\ variant = "guard"
    /\ users = EmptyColl /\ labels = EmptyColl /\ tasks = EmptyColl
    /\ next_user = 1 /\ next_label = 1 /\ next_task = 1
    /\ wallet = NoWallet
    /\ now = 0
    /\ resp = NoResp
    /\ MachineryInit

TokenNext ==
    \/ call_create_access_token
    \/ call_forge
    \/ call_verify_token
    \/ Tick

TokenSpec == TokenInit /\ [][TokenNext /\ UNCHANGED machinery]_vars

----------------------------------------------------------------------------
(* Documents and responses *)

\* a hash function that stores the password as it is
get_password_hash_plain(password) == password

\* pwd_context.hash / pwd_context.verify with the pbkdf2_sha256 scheme: the
\* hash string carries the scheme and a digest that stands for the password
\* (no two passwords share a digest); verification derives the hash string
\* of the plain password and compares
get_password_hash(password) == "$pbkdf2-sha256$" \o password
verify_password(plain_password, hashed_password) ==
    hashed_password = "$pbkdf2-sha256$" \o plain_password

UserDoc(email, password) ==
    [email |-> email, hashed_password |-> get_password_hash(password), is_active |-> TRUE]
LabelDoc(user_id, name) == [user_id |-> user_id, name |-> name]
TaskDoc(user_id, status, label_ids) ==
    [user_id |-> user_id, status |-> status, labels |-> label_ids]

ObjectId_is_valid(id) == id >= 1

\* The response of a call to a task or label route, with the request's
\* bearer token.  caller is the set holding the resolved user id (empty:
\* the resolver refused the request and the handler body never ran).  When
\* the body ran, id is the addressed document and existed/owner describe
\* it before the call.
Resp(op, token, status, caller, id, coll) ==
    LET target == IF caller = {} THEN 0 ELSE id
    IN  [op |-> op, token |-> token, status |-> status, caller |-> caller,
         id |-> target,
         existed |-> target \in DOMAIN coll,
         owner |-> IF target \in DOMAIN coll THEN {coll[target].user_id} ELSE {}]

\* The response of an account route; id is the user it concerns (0: none)
AuthResp(op, status, caller, id) ==
    [op |-> op, status |-> status, caller |-> caller, id |-> id]

FindByEmail(email) == {u \in DOMAIN users : users[u].email = email}

\* An expired token for the subject of t, built as test_expired_token builds it
Expired(t) == create_access_token(t.sub, Delta(-1), now)

\* The tokens a client can put in the Authorization header: the one it
\* holds, that one altered or expired, or (holding none) a string that is no token
Presentable ==
    {wallet.token}
        \cup (IF wallet.token.form = "jwt"
              THEN {Tampered(wallet.token), Expired(wallet.token)}
              ELSE {GarbageToken})

TaskIdInputs == 0..MaxTasks
LabelIdInputs == 0..MaxLabels
\* label ids a task body refers to: a malformed one and the first label
LabelRefs == {0, 1}
LabelIdLists == {{}} \cup {{l} : l \in LabelRefs}
\* the guard routes store a body's label ids as given, without a lookup
StoredLabelLists == {{}, {1}}

----------------------------------------------------------------------------
(* Identity resolvers.  Result: [status, uid]; status 200 means resolved.  *)

\* backend/api/deps.py: by id only (UserCRUD.get_by_id swallows the
\* exception ObjectId raises on a subject that is not an object id)
get_current_user(token) ==
    LET user_id == verify_token(token, now)
    IN  IF user_id.kind # "sub" THEN [status |-> 401, uid |-> {}]
        ELSE IF ~(user_id.sub.kind = "id" /\ user_id.sub.id \in DOMAIN users)
             THEN [status |-> 401, uid |-> {}]
        ELSE IF ~users[user_id.sub.id].is_active THEN [status |-> 400, uid |-> {}]
        ELSE [status |-> 200, uid |-> {user_id.sub.id}]

\* app/api/v1/auth.py: by id only, ObjectId(sub) unguarded, no is_active test
app_get_current_user(token) ==
    LET user_id == verify_token(token, now)
    IN  IF user_id.kind # "sub" THEN [status |-> 401, uid |-> {}]
        ELSE IF user_id.sub.kind # "id" THEN [status |-> 500, uid |-> {}]
        ELSE IF user_id.sub.id \notin DOMAIN users THEN [status |-> 401, uid |-> {}]
        ELSE [status |-> 200, uid |-> {user_id.sub.id}]

\* core.security.get_current_active_user of the inline routes and of
\* backend/api/v1/auth.py: the subject is looked up as an id or as an email
get_current_active_user(token) ==
    LET user_id == verify_token(token, now)
        found == IF user_id.kind # "sub" THEN {}
                 ELSE IF user_id.sub.kind = "id"
                      THEN {user_id.sub.id} \cap DOMAIN users
                      ELSE FindByEmail(user_id.sub.email)
    IN  IF user_id.kind # "sub" THEN [status |-> 401, uid |-> {}]
        ELSE IF found = {} THEN [status |-> 401, uid |-> {}]
        ELSE IF \E u \in found : ~users[u].is_active THEN [status |-> 400, uid |-> {}]
        ELSE [status |-> 200, uid |-> found]

----------------------------------------------------------------------------
(* backend/api/v1/auth.py *)

Issue(sub, delta, u) ==
    [token |-> create_access_token(<<sub>>, delta, now), src |-> "create_access_token",
     iat |-> now, delta |-> delta, data |-> <<sub>>, owner |-> {u}]

\* create_default_labels: Personal and Work, unless the user has a label
default_labels(user_id) ==
    IF \E l \in DOMAIN labels : labels[l].user_id = user_id THEN labels
    ELSE Insert(Insert(labels, next_label, LabelDoc(user_id, "Personal")),
                next_label + 1, LabelDoc(user_id, "Work"))

\* a registration that does not look for the email first
register_without_lookup(email, password) ==
    /\ variant \in {"guard", "inline"}
    /\ next_user <= MaxUsers /\ next_label + 1 <= MaxLabels
    /\ users' = Insert(users, next_user, UserDoc(email, password))
    /\ next_user' = next_user + 1
    /\ labels' = default_labels(next_user)
    /\ next_label' = next_label + 2
    /\ wallet' = Issue(EmailSub(email), NoDelta, next_user)
    /\ resp' = AuthResp("register", 201, {}, next_user)
    /\ UNCHANGED <<variant, tasks, next_task, now>>

register(email, password) ==
    /\ variant \in {"guard", "inline"}
    /\ IF FindByEmail(email) # {}
       THEN /\ resp' = AuthResp("register", 400, {}, 0)
            /\ UNCHANGED <<variant, store, wallet, now>>
       ELSE /\ next_user <= MaxUsers /\ next_label + 1 <= MaxLabels
            /\ users' = Insert(users, next_user, UserDoc(email, password))
            /\ next_user' = next_user + 1
            /\ labels' = default_labels(next_user)
            /\ next_label' = next_label + 2
            /\ wallet' = Issue(EmailSub(email), NoDelta, next_user)
            /\ resp' = AuthResp("register", 201, {}, next_user)
            /\ UNCHANGED <<variant, tasks, next_task, now>>

login(username, password) ==
    /\ variant \in {"guard", "inline"}
    /\ LET user == FindByEmail(username)
       IN  IF user = {} \/ \E u \in user : ~verify_password(password, users[u].hashed_password)
           THEN /\ resp' = AuthResp("login", 401, {}, 0)
                /\ UNCHANGED wallet
           ELSE IF \E u \in user : ~users[u].is_active
           THEN /\ resp' = AuthResp("login", 400, {}, 0)
                /\ UNCHANGED wallet
           ELSE \E u \in user :
                /\ wallet' = Issue(IdSub(u), Delta(jwt_expire_minutes), u)
                /\ resp' = AuthResp("login", 200, {}, u)
    /\ UNCHANGED <<variant, store, now>>

login_json(email, password) ==
    /\ variant \in {"guard", "inline"}
    /\ LET user == FindByEmail(email)
       IN  IF user = {} \/ \E u \in user : ~verify_password(password, users[u].hashed_password)
           THEN /\ resp' = AuthResp("login_json", 401, {}, 0)
                /\ UNCHANGED wallet
           ELSE IF \E u \in user : ~users[u].is_active
           THEN /\ resp' = AuthResp("login_json", 400, {}, 0)
                /\ UNCHANGED wallet
           ELSE \E u \in user :
                /\ wallet' = Issue(EmailSub(users[u].email), Delta(jwt_expire_minutes), u)
                /\ resp' = AuthResp("login_json", 200, {}, u)
    /\ UNCHANGED <<variant, store, now>>

demo_login ==
    /\ variant \in {"guard", "inline"}
    /\ IF FindByEmail(demo_email) = {}
       THEN /\ next_user <= MaxUsers /\ next_label + 1 <= MaxLabels
            /\ users' = Insert(users, next_user, UserDoc(demo_email, "demo123"))
            /\ next_user' = next_user + 1
            /\ labels' = default_labels(next_user)
            /\ next_label' = next_label + 2
            /\ wallet' = Issue(EmailSub(demo_email), Delta(jwt_expire_minutes), next_user)
            /\ resp' = AuthResp("demo_login", 200, {}, next_user)
       ELSE \E u \in FindByEmail(demo_email) :
            /\ wallet' = Issue(EmailSub(users[u].email), Delta(jwt_expire_minutes), u)
            /\ resp' = AuthResp("demo_login", 200, {}, u)
            /\ UNCHANGED <<users, labels, next_user, next_label>>
    /\ UNCHANGED <<variant, tasks, next_task, now>>

refresh_token(token) ==
    /\ variant \in {"guard", "inline"}
    /\ LET auth == get_current_active_user(token)
       IN  IF auth.status # 200
           THEN /\ resp' = AuthResp("refresh_token", auth.status, {}, 0)
                /\ UNCHANGED wallet
           ELSE \E u \in auth.uid :
                /\ wallet' = Issue(EmailSub(users[u].email), Delta(jwt_expire_minutes), u)
                /\ resp' = AuthResp("refresh_token", 200, auth.uid, u)
    /\ UNCHANGED <<variant, store, now>>

\* user_data.email is <<>> (not provided) or <<email>>; a name-only update
\* changes no field the model keeps
update_profile(token, name_given, email) ==
    /\ variant \in {"guard", "inline"}
    /\ LET auth == get_current_active_user(token)
       IN  IF auth.status # 200
           THEN /\ resp' = AuthResp("update_profile", auth.status, {}, 0)
                /\ UNCHANGED users
           ELSE \E u \in auth.uid :
                IF email # <<>> /\ FindByEmail(email[1]) \ {u} # {}
                THEN /\ resp' = AuthResp("update_profile", 400, auth.uid, u)
                     /\ UNCHANGED users
                ELSE IF email = <<>> /\ ~name_given
                THEN /\ resp' = AuthResp("update_profile", 400, auth.uid, u)
                     /\ UNCHANGED users
                ELSE /\ users' = IF email = <<>> THEN users
                                 ELSE [users EXCEPT ![u].email = email[1]]
                     /\ resp' = AuthResp("update_profile", 200, auth.uid, u)
    /\ UNCHANGED <<variant, labels, tasks, next_user, next_label, next_task, wallet, now>>

\* backend/api/v1/admin.py
clear_all_data ==
    /\ variant \in {"guard", "inline"}
    /\ users' = EmptyColl /\ tasks' = EmptyColl /\ labels' = EmptyColl
    /\ resp' = AuthResp("clear_all_data", 200, {}, 0)
    /\ UNCHANGED <<variant, next_user, next_label, next_task, wallet, now>>

\* An operator switches an account off in the store (no endpoint does)
deactivate(u) ==
    /\ u \in DOMAIN users /\ users[u].is_active
    /\ users' = [users EXCEPT ![u].is_active = FALSE]
    /\ UNCHANGED <<variant, labels, tasks, next_user, next_label, next_task,
                   wallet, now, resp>>

----------------------------------------------------------------------------
(* Guard generation: src/api/v1/tasks.py, src/api/v1/labels.py over         *)
(* src/crud/task.py and backend/crud/label.py, identity from deps.py.       *)
(* TaskCRUD/LabelCRUD.get_by_id return None for an absent document and for  *)
(* an id that is not an object id.                                          *)

TaskStatus == {"pending", "in_progress", "completed"}
\* the statuses the client asks for
StatusInputs == {"completed"}

guard_create_task(token, label_ids) ==
    /\ variant = "guard"
    /\ LET auth == get_current_user(token)
       IN  IF auth.status # 200
           THEN /\ resp' = Resp("create_task", token, auth.status, {}, 0, tasks)
                /\ UNCHANGED <<tasks, next_task>>
           ELSE \E u \in auth.uid :
                /\ next_task <= MaxTasks
                /\ tasks' = Insert(tasks, next_task, TaskDoc(u, "pending", label_ids))
                /\ next_task' = next_task + 1
                /\ resp' = Resp("create_task", token, 201, auth.uid, next_task, tasks)
    /\ UNCHANGED <<variant, users, labels, next_user, next_label, wallet, now>>

\* TaskCRUD.get_by_id finds the task: the document exists and Task.from_dict
\* reads it (TaskStatus(status) raises on any other string, which get_by_id
\* turns into None)
task_get_by_id(task_id) ==
    task_id \in DOMAIN tasks /\ tasks[task_id].status \in TaskStatus

guard_get_task(token, task_id) ==
    /\ variant = "guard"
    /\ LET auth == get_current_user(token)
           status == IF auth.status # 200 THEN auth.status
                     ELSE IF ~task_get_by_id(task_id) THEN 404
                     ELSE IF tasks[task_id].user_id \notin auth.uid THEN 403
                     ELSE 200
       IN  resp' = Resp("get_task", token, status, auth.uid, task_id, tasks)
    /\ UNCHANGED <<variant, store, wallet, now>>

\* cursor.sort("created_at", -1): ids are handed out in creation order
RECURSIVE find_sorted(_)
find_sorted(S) ==
    IF S = {} THEN <<>>
    ELSE LET newest == CHOOSE x \in S : \A y \in S : y <= x
         IN  <<newest>> \o find_sorted(S \ {newest})

\* a listing whose query leaves the user out
get_by_user_unscoped(user_id, status) ==
    find_sorted({t \in DOMAIN tasks : status = <<>> \/ tasks[t].status = status[1]})

\* TaskCRUD.get_by_user(user_id, status): status is <<>> (None) or <<value>>
get_by_user(user_id, status) ==
    find_sorted({t \in DOMAIN tasks :
                    /\ tasks[t].user_id = user_id
                    /\ (status = <<>> \/ tasks[t].status = status[1])})

\* The response of a listing route: the ids of the tasks returned, in order
ListResp(token, status, caller, filter, list) ==
    [op |-> "get_tasks", token |-> token, status |-> status, caller |-> caller,
     filter |-> filter, tasks |-> list]

guard_get_tasks(token, status_filter) ==
    /\ variant = "guard"
    /\ LET auth == get_current_user(token)
       IN  IF auth.status # 200
           THEN resp' = ListResp(token, auth.status, {}, <<>>, <<>>)
           ELSE \E u \in auth.uid :
                IF \E t \in DOMAIN tasks : tasks[t].user_id = u /\ ~task_get_by_id(t)
                      /\ (status_filter = <<>> \/ tasks[t].status = status_filter[1])
                THEN resp' = ListResp(token, 500, auth.uid, status_filter, <<>>)
                ELSE resp' = ListResp(token, 200, auth.uid, status_filter,
                                      get_by_user(u, status_filter))
    /\ UNCHANGED <<variant, store, wallet, now>>

\* task_data: status and label_ids are <<>> (None) or <<value>>.
\* TaskCRUD.update always sets updated_at to the current time, so the
\* update modifies the document and the updated task is returned; status
\* is any string (TaskUpdate.status is Optional[str]), and when the stored
\* document cannot be read back the route answers 400 after the write.
guard_update_task(token, task_id, status_, label_ids) ==
    /\ variant = "guard"
    /\ LET auth == get_current_user(token)
           status == IF auth.status # 200 THEN auth.status
                     ELSE IF ~task_get_by_id(task_id) THEN 404
                     ELSE IF tasks[task_id].user_id \notin auth.uid THEN 403
                     ELSE 200
           unreadable == status_ # <<>> /\ status_[1] \notin TaskStatus
       IN  /\ resp' = Resp("update_task", token,
                           IF status = 200 /\ unreadable THEN 400 ELSE status,
                           auth.uid, task_id, tasks)
           /\ tasks' = IF status # 200 THEN tasks
                       ELSE [tasks EXCEPT
                               ![task_id].status = IF status_ = <<>> THEN @ ELSE status_[1],
                               ![task_id].labels = IF label_ids = <<>> THEN @ ELSE label_ids[1]]
    /\ UNCHANGED <<variant, users, labels, next_user, next_label, next_task, wallet, now>>

guard_update_task_status(token, task_id, status_) ==
    /\ variant = "guard"
    /\ LET auth == get_current_user(token)
           status == IF auth.status # 200 THEN auth.status
                     ELSE IF ~task_get_by_id(task_id) THEN 404
                     ELSE IF tasks[task_id].user_id \notin auth.uid THEN 403
                     ELSE 200
       IN  /\ resp' = Resp("update_task_status", token, status, auth.uid, task_id, tasks)
           /\ tasks' = IF status # 200 THEN tasks
                       ELSE [tasks EXCEPT ![task_id].status = status_]
    /\ UNCHANGED <<variant, users, labels, next_user, next_label, next_task, wallet, now>>

guard_delete_task(token, task_id) ==
    /\ variant = "guard"
    /\ LET auth == get_current_user(token)
           status == IF auth.status # 200 THEN auth.status
                     ELSE IF ~task_get_by_id(task_id) THEN 404
                     ELSE IF tasks[task_id].user_id \notin auth.uid THEN 403
                     ELSE 200
       IN  /\ resp' = Resp("delete_task", token, status, auth.uid, task_id, tasks)
           /\ tasks' = IF status # 200 THEN tasks ELSE Remove(tasks, task_id)
    /\ UNCHANGED <<variant, users, labels, next_user, next_label, next_task, wallet, now>>

\* The result of a TaskCRUD method called directly: "Task", "None" or "raise"
CrudResp(op, task_id, result) == [op |-> op, id |-> task_id, result |-> result]

\* an add_label that writes the document anew, without its owner
add_label_replacing_document(task_id, label_id) ==
    /\ variant = "guard"
    /\ IF ~ObjectId_is_valid(task_id)
       THEN resp' = CrudResp("add_label", task_id, "raise") /\ UNCHANGED tasks
       ELSE IF task_id \notin DOMAIN tasks
       THEN resp' = CrudResp("add_label", task_id, "None") /\ UNCHANGED tasks
       ELSE /\ tasks' = [tasks EXCEPT ![task_id] =
                            TaskDoc(0, @.status, @.labels \cup {label_id})]
            /\ resp' = CrudResp("add_label", task_id, "Task")
    /\ UNCHANGED <<variant, users, labels, next_user, next_label, next_task, wallet, now>>

\* TaskCRUD.add_label: $addToSet on label_ids; ObjectId(task_id) raises on
\* a string that is not an object id
add_label(task_id, label_id) ==
    /\ variant = "guard"
    /\ IF ~ObjectId_is_valid(task_id)
       THEN resp' = CrudResp("add_label", task_id, "raise") /\ UNCHANGED tasks
       ELSE IF task_id \notin DOMAIN tasks
       THEN resp' = CrudResp("add_label", task_id, "None") /\ UNCHANGED tasks
       ELSE /\ tasks' = [tasks EXCEPT ![task_id].labels = @ \cup {label_id}]
            /\ resp' = CrudResp("add_label", task_id, "Task")
    /\ UNCHANGED <<variant, users, labels, next_user, next_label, next_task, wallet, now>>

\* TaskCRUD.remove_label: $pull on label_ids
remove_label(task_id, label_id) ==
    /\ variant = "guard"
    /\ IF ~ObjectId_is_valid(task_id)
       THEN resp' = CrudResp("remove_label", task_id, "raise") /\ UNCHANGED tasks
       ELSE IF task_id \notin DOMAIN tasks
       THEN resp' = CrudResp("remove_label", task_id, "None") /\ UNCHANGED tasks
       ELSE /\ tasks' = [tasks EXCEPT ![task_id].labels = @ \ {label_id}]
            /\ resp' = CrudResp("remove_label", task_id, "Task")
    /\ UNCHANGED <<variant, users, labels, next_user, next_label, next_task, wallet, now>>

\* a name test that looks at the labels of every user
is_name_taken_by_anyone(name, user_id, exclude_id) ==
    \E l \in DOMAIN labels \ exclude_id : labels[l].name = name

\* LabelCRUD.is_name_taken(name, user_id, exclude_id)
is_name_taken(name, user_id, exclude_id) ==
    \E l \in DOMAIN labels \ exclude_id :
        labels[l].name = name /\ labels[l].user_id = user_id

guard_create_label(token, name) ==
    /\ variant = "guard"
    /\ LET auth == get_current_user(token)
       IN  IF auth.status # 200
           THEN /\ resp' = Resp("create_label", token, auth.status, {}, 0, labels)
                /\ UNCHANGED <<labels, next_label>>
           ELSE \E u \in auth.uid :
                IF is_name_taken(name, u, {})
                THEN /\ resp' = Resp("create_label", token, 400, auth.uid, 0, labels)
                     /\ UNCHANGED <<labels, next_label>>
                ELSE /\ next_label <= MaxLabels
                     /\ labels' = Insert(labels, next_label, LabelDoc(u, name))
                     /\ next_label' = next_label + 1
                     /\ resp' = Resp("create_label", token, 201, auth.uid, next_label, labels)
    /\ UNCHANGED <<variant, users, tasks, next_user, next_task, wallet, now>>

guard_get_label(token, label_id) ==
    /\ variant = "guard"
    /\ LET auth == get_current_user(token)
           status == IF auth.status # 200 THEN auth.status
                     ELSE IF label_id \notin DOMAIN labels THEN 404
                     ELSE IF labels[label_id].user_id \notin auth.uid THEN 403
                     ELSE 200
       IN  resp' = Resp("get_label", token, status, auth.uid, label_id, labels)
    /\ UNCHANGED <<variant, store, wallet, now>>

\* label_data.name is <<>> (None) or <<name>>.  LabelCRUD.update returns
\* the label when there is nothing to set, and None (answered 400) when
\* update_one modified nothing, that is when the name is the current one.
guard_update_label(token, label_id, name) ==
    /\ variant = "guard"
    /\ LET auth == get_current_user(token)
           status == IF auth.status # 200 THEN auth.status
                     ELSE IF label_id \notin DOMAIN labels THEN 404
                     ELSE IF labels[label_id].user_id \notin auth.uid THEN 403
                     ELSE IF /\ name # <<>>
                             /\ name[1] # labels[label_id].name
                             /\ is_name_taken(name[1], labels[label_id].user_id, {label_id})
                          THEN 400
                     ELSE IF name # <<>> /\ name[1] = labels[label_id].name THEN 400
                     ELSE 200
       IN  /\ resp' = Resp("update_label", token, status, auth.uid, label_id, labels)
           /\ labels' = IF status # 200 \/ name = <<>> THEN labels
                        ELSE [labels EXCEPT ![label_id].name = name[1]]
    /\ UNCHANGED <<variant, users, tasks, next_user, next_label, next_task, wallet, now>>

\* a delete that tests ownership before existence
guard_delete_label_owner_first(token, label_id) ==
    /\ variant = "guard"
    /\ LET auth == get_current_user(token)
           status == IF auth.status # 200 THEN auth.status
                     ELSE IF ~(label_id \in DOMAIN labels
                               /\ labels[label_id].user_id \in auth.uid) THEN 403
                     ELSE 200
       IN  /\ resp' = Resp("delete_label", token, status, auth.uid, label_id, labels)
           /\ labels' = IF status # 200 THEN labels ELSE Remove(labels, label_id)
    /\ UNCHANGED <<variant, users, tasks, next_user, next_label, next_task, wallet, now>>

guard_delete_label(token, label_id) ==
    /\ variant = "guard"
    /\ LET auth == get_current_user(token)
           status == IF auth.status # 200 THEN auth.status
                     ELSE IF label_id \notin DOMAIN labels THEN 404
                     ELSE IF labels[label_id].user_id \notin auth.uid THEN 403
                     ELSE 200
       IN  /\ resp' = Resp("delete_label", token, status, auth.uid, label_id, labels)
           /\ labels' = IF status # 200 THEN labels ELSE Remove(labels, label_id)
    /\ UNCHANGED <<variant, users, tasks, next_user, next_label, next_task, wallet, now>>

----------------------------------------------------------------------------
(* Inline generation: src/backend/api/v1/tasks.py and labels.py.  Every     *)
(* query carries the caller's user_id; identity comes from                  *)
(* core.security.get_current_active_user.                                   *)

InlineStatus == {"incomplete", "complete"}

\* the label loop of create_task/update_task: 400 on the first id that is
\* not an object id, 404 on the first label that is absent or not the
\* caller's, 0 when every label passes
check_labels(label_ids, u) ==
    IF \E l \in label_ids : ~ObjectId_is_valid(l) THEN 400
    ELSE IF \E l \in label_ids : ~(l \in DOMAIN labels /\ labels[l].user_id = u) THEN 404
    ELSE 0

inline_create_task(token, label_ids) ==
    /\ variant = "inline"
    /\ LET auth == get_current_active_user(token)
       IN  IF auth.status # 200
           THEN /\ resp' = Resp("create_task", token, auth.status, {}, 0, tasks)
                /\ UNCHANGED <<tasks, next_task>>
           ELSE \E u \in auth.uid :
                IF check_labels(label_ids, u) # 0
                THEN /\ resp' = Resp("create_task", token, check_labels(label_ids, u), auth.uid, 0, tasks)
                     /\ UNCHANGED <<tasks, next_task>>
                ELSE /\ next_task <= MaxTasks
                     /\ tasks' = Insert(tasks, next_task, TaskDoc(u, "incomplete", label_ids))
                     /\ next_task' = next_task + 1
                     /\ resp' = Resp("create_task", token, 201, auth.uid, next_task, tasks)
    /\ UNCHANGED <<variant, users, labels, next_user, next_label, wallet, now>>

inline_get_task(token, task_id) ==
    /\ variant = "inline"
    /\ LET auth == get_current_active_user(token)
           status == IF auth.status # 200 THEN auth.status
                     ELSE IF ~ObjectId_is_valid(task_id) THEN 400
                     ELSE IF ~(task_id \in DOMAIN tasks /\ tasks[task_id].user_id \in auth.uid)
                          THEN 404
                     ELSE 200
       IN  resp' = Resp("get_task", token, status, auth.uid, task_id, tasks)
    /\ UNCHANGED <<variant, store, wallet, now>>

\* task_data: status and labels are <<>> (None) or <<value>>
inline_update_task(token, task_id, status_, label_ids) ==
    /\ variant = "inline"
    /\ LET auth == get_current_active_user(token)
           status == IF auth.status # 200 THEN auth.status
                     ELSE IF ~ObjectId_is_valid(task_id) THEN 400
                     ELSE IF ~(task_id \in DOMAIN tasks /\ tasks[task_id].user_id \in auth.uid)
                          THEN 404
                     ELSE IF label_ids # <<>>
                             /\ check_labels(label_ids[1], tasks[task_id].user_id) # 0
                          THEN check_labels(label_ids[1], tasks[task_id].user_id)
                     ELSE IF status_ = <<>> /\ label_ids = <<>> THEN 400
                     ELSE 200
       IN  /\ resp' = Resp("update_task", token, status, auth.uid, task_id, tasks)
           /\ tasks' = IF status # 200 THEN tasks
                       ELSE [tasks EXCEPT
                               ![task_id].status = IF status_ = <<>> THEN @ ELSE status_[1],
                               ![task_id].labels = IF label_ids = <<>> THEN @ ELSE label_ids[1]]
    /\ UNCHANGED <<variant, users, labels, next_user, next_label, next_task, wallet, now>>

\* a status update that stores whatever string the body carries
inline_update_task_status_unvalidated(token, task_id, new_status) ==
    /\ variant = "inline"
    /\ LET auth == get_current_active_user(token)
           status == IF auth.status # 200 THEN auth.status
                     ELSE IF ~ObjectId_is_valid(task_id) THEN 400
                     ELSE IF ~(task_id \in DOMAIN tasks /\ tasks[task_id].user_id \in auth.uid)
                          THEN 404
                     ELSE 200
       IN  /\ resp' = Resp("update_task_status", token, status, auth.uid, task_id, tasks)
           /\ tasks' = IF status # 200 THEN tasks
                       ELSE [tasks EXCEPT ![task_id].status = new_status]
    /\ UNCHANGED <<variant, users, labels, next_user, next_label, next_task, wallet, now>>

\* status_data.get("status") is any string of the request body
inline_update_task_status(token, task_id, new_status) ==
    /\ variant = "inline"
    /\ LET auth == get_current_active_user(token)
           status == IF auth.status # 200 THEN auth.status
                     ELSE IF ~ObjectId_is_valid(task_id) THEN 400
                     ELSE IF ~(task_id \in DOMAIN tasks /\ tasks[task_id].user_id \in auth.uid)
                          THEN 404
                     ELSE IF new_status \notin InlineStatus THEN 400
                     ELSE 200
       IN  /\ resp' = Resp("update_task_status", token, status, auth.uid, task_id, tasks)
           /\ tasks' = IF status # 200 THEN tasks
                       ELSE [tasks EXCEPT ![task_id].status = new_status]
    /\ UNCHANGED <<variant, users, labels, next_user, next_label, next_task, wallet, now>>

inline_delete_task(token, task_id) ==
    /\ variant = "inline"
    /\ LET auth == get_current_active_user(token)
           status == IF auth.status # 200 THEN auth.status
                     ELSE IF ~ObjectId_is_valid(task_id) THEN 400
                     ELSE IF ~(task_id \in DOMAIN tasks /\ tasks[task_id].user_id \in auth.uid)
                          THEN 404
                     ELSE 204
       IN  /\ resp' = Resp("delete_task", token, status, auth.uid, task_id, tasks)
           /\ tasks' = IF status # 204 THEN tasks ELSE Remove(tasks, task_id)
    /\ UNCHANGED <<variant, users, labels, next_user, next_label, next_task, wallet, now>>

inline_create_label(token, name) ==
    /\ variant = "inline"
    /\ LET auth == get_current_active_user(token)
       IN  IF auth.status # 200
           THEN /\ resp' = Resp("create_label", token, auth.status, {}, 0, labels)
                /\ UNCHANGED <<labels, next_label>>
           ELSE \E u \in auth.uid :
                IF \E l \in DOMAIN labels : labels[l].user_id = u /\ labels[l].name = name
                THEN /\ resp' = Resp("create_label", token, 400, auth.uid, 0, labels)
                     /\ UNCHANGED <<labels, next_label>>
                ELSE /\ next_label <= MaxLabels
                     /\ labels' = Insert(labels, next_label, LabelDoc(u, name))
                     /\ next_label' = next_label + 1
                     /\ resp' = Resp("create_label", token, 201, auth.uid, next_label, labels)
    /\ UNCHANGED <<variant, users, tasks, next_user, next_task, wallet, now>>

inline_get_label(token, label_id) ==
    /\ variant = "inline"
    /\ LET auth == get_current_active_user(token)
           status == IF auth.status # 200 THEN auth.status
                     ELSE IF ~ObjectId_is_valid(label_id) THEN 400
                     ELSE IF ~(label_id \in DOMAIN labels /\ labels[label_id].user_id \in auth.uid)
                          THEN 404
                     ELSE 200
       IN  resp' = Resp("get_label", token, status, auth.uid, label_id, labels)
    /\ UNCHANGED <<variant, store, wallet, now>>

\* label_data.name is <<>> (None) or <<name>>; without a name (the model
\* keeps no color) there is nothing to update
inline_update_label(token, label_id, name) ==
    /\ variant = "inline"
    /\ LET auth == get_current_active_user(token)
           status == IF auth.status # 200 THEN auth.status
                     ELSE IF ~ObjectId_is_valid(label_id) THEN 400
                     ELSE IF ~(label_id \in DOMAIN labels /\ labels[label_id].user_id \in auth.uid)
                          THEN 404
                     ELSE IF name # <<>> /\ \E l \in DOMAIN labels \ {label_id} :
                                  /\ labels[l].user_id = labels[label_id].user_id
                                  /\ labels[l].name = name[1]
                          THEN 400
                     ELSE IF name = <<>> THEN 400
                     ELSE 200
       IN  /\ resp' = Resp("update_label", token, status, auth.uid, label_id, labels)
           /\ labels' = IF status # 200 THEN labels
                        ELSE [labels EXCEPT ![label_id].name = name[1]]
    /\ UNCHANGED <<variant, users, tasks, next_user, next_label, next_task, wallet, now>>

\* a delete that leaves the tasks alone
inline_delete_label_no_pull(token, label_id) ==
    /\ variant = "inline"
    /\ LET auth == get_current_active_user(token)
           status == IF auth.status # 200 THEN auth.status
                     ELSE IF ~ObjectId_is_valid(label_id) THEN 400
                     ELSE IF ~(label_id \in DOMAIN labels /\ labels[label_id].user_id \in auth.uid)
                          THEN 404
                     ELSE 204
       IN  /\ resp' = Resp("delete_label", token, status, auth.uid, label_id, labels)
           /\ labels' = IF status # 204 THEN labels ELSE Remove(labels, label_id)
           /\ UNCHANGED tasks
    /\ UNCHANGED <<variant, users, next_user, next_label, next_task, wallet, now>>

\* delete_one scoped by the caller, then $pull of the id from the labels
\* of all the caller's tasks
inline_delete_label(token, label_id) ==
    /\ variant = "inline"
    /\ LET auth == get_current_active_user(token)
           status == IF auth.status # 200 THEN auth.status
                     ELSE IF ~ObjectId_is_valid(label_id) THEN 400
                     ELSE IF ~(label_id \in DOMAIN labels /\ labels[label_id].user_id \in auth.uid)
                          THEN 404
                     ELSE 204
       IN  /\ resp' = Resp("delete_label", token, status, auth.uid, label_id, labels)
           /\ labels' = IF status # 204 THEN labels ELSE Remove(labels, label_id)
           /\ tasks' = IF status # 204 THEN tasks
                       ELSE [t \in DOMAIN tasks |->
                               IF tasks[t].user_id \in auth.uid
                               THEN [tasks[t] EXCEPT !.labels = @ \ {label_id}]
                               ELSE tasks[t]]
    /\ UNCHANGED <<variant, users, next_user, next_label, next_task, wallet, now>>

----------------------------------------------------------------------------
(* App generation: src/app/api/v1/*.py over src/app/crud/*.py.  The crud    *)
(* functions call ObjectId(id) unguarded (an id that is not an object id    *)
(* raises, answered 500) and scope every query by the caller's user_id.     *)
(* update_* return None, answered 404, when update_one modified nothing.    *)
(* A task document has no status: its `completed` field is absent until an  *)
(* update sets it ("unset", "true", "false").                               *)

Completed == {"true", "false"}

app_register(email, password) ==
    /\ variant = "app"
    /\ IF FindByEmail(email) # {}
       THEN /\ resp' = AuthResp("register", 400, {}, 0)
            /\ UNCHANGED <<users, next_user>>
       ELSE /\ next_user <= MaxUsers
            /\ users' = Insert(users, next_user, UserDoc(email, password))
            /\ next_user' = next_user + 1
            /\ resp' = AuthResp("register", 200, {}, next_user)
    /\ UNCHANGED <<variant, labels, tasks, next_label, next_task, wallet, now>>

\* authenticate_user, then a token whose subject is the user id
app_login(username, password) ==
    /\ variant = "app"
    /\ LET user == FindByEmail(username)
       IN  IF user = {} \/ \E u \in user : ~verify_password(password, users[u].hashed_password)
           THEN /\ resp' = AuthResp("login", 401, {}, 0)
                /\ UNCHANGED wallet
           ELSE \E u \in user :
                /\ wallet' = Issue(IdSub(u), Delta(jwt_expire_minutes), u)
                /\ resp' = AuthResp("login", 200, {}, u)
    /\ UNCHANGED <<variant, store, now>>

app_create_task(token, label_ids) ==
    /\ variant = "app"
    /\ LET auth == app_get_current_user(token)
       IN  IF auth.status # 200
           THEN /\ resp' = Resp("create_task", token, auth.status, {}, 0, tasks)
                /\ UNCHANGED <<tasks, next_task>>
           ELSE \E u \in auth.uid :
                IF \E l \in label_ids : ~ObjectId_is_valid(l)
                THEN /\ resp' = Resp("create_task", token, 500, auth.uid, 0, tasks)
                     /\ UNCHANGED <<tasks, next_task>>
                ELSE /\ next_task <= MaxTasks
                     /\ tasks' = Insert(tasks, next_task, TaskDoc(u, "unset", label_ids))
                     /\ next_task' = next_task + 1
                     /\ resp' = Resp("create_task", token, 200, auth.uid, next_task, tasks)
    /\ UNCHANGED <<variant, users, labels, next_user, next_label, wallet, now>>

app_get_task(token, task_id) ==
    /\ variant = "app"
    /\ LET auth == app_get_current_user(token)
           status == IF auth.status # 200 THEN auth.status
                     ELSE IF ~ObjectId_is_valid(task_id) THEN 500
                     ELSE IF ~(task_id \in DOMAIN tasks /\ tasks[task_id].user_id \in auth.uid)
                          THEN 404
                     ELSE 200
       IN  resp' = Resp("get_task", token, status, auth.uid, task_id, tasks)
    /\ UNCHANGED <<variant, store, wallet, now>>

\* task_update: completed and label_ids are <<>> (unset) or <<value>>
app_update_task(token, task_id, completed, label_ids) ==
    /\ variant = "app"
    /\ LET auth == app_get_current_user(token)
           new == [tasks[task_id] EXCEPT
                      !.status = IF completed = <<>> THEN @ ELSE completed[1],
                      !.labels = IF label_ids = <<>> THEN @ ELSE label_ids[1]]
           status == IF auth.status # 200 THEN auth.status
                     ELSE IF label_ids # <<>> /\ \E l \in label_ids[1] : ~ObjectId_is_valid(l)
                          THEN 500
                     ELSE IF ~ObjectId_is_valid(task_id) THEN 500
                     ELSE IF ~(task_id \in DOMAIN tasks /\ tasks[task_id].user_id \in auth.uid)
                          THEN 404
                     ELSE IF completed = <<>> /\ label_ids = <<>> THEN 200
                     ELSE IF new = tasks[task_id] THEN 404
                     ELSE 200
       IN  /\ resp' = Resp("update_task", token, status, auth.uid, task_id, tasks)
           /\ tasks' = IF status # 200 THEN tasks ELSE [tasks EXCEPT ![task_id] = new]
    /\ UNCHANGED <<variant, users, labels, next_user, next_label, next_task, wallet, now>>

app_delete_task(token, task_id) ==
    /\ variant = "app"
    /\ LET auth == app_get_current_user(token)
           status == IF auth.status # 200 THEN auth.status
                     ELSE IF ~ObjectId_is_valid(task_id) THEN 500
                     ELSE IF ~(task_id \in DOMAIN tasks /\ tasks[task_id].user_id \in auth.uid)
                          THEN 404
                     ELSE 200
       IN  /\ resp' = Resp("delete_task", token, status, auth.uid, task_id, tasks)
           /\ tasks' = IF status # 200 THEN tasks ELSE Remove(tasks, task_id)
    /\ UNCHANGED <<variant, users, labels, next_user, next_label, next_task, wallet, now>>

\* get_label_by_name(db, name, user_id): the ids of the caller's labels of that name
get_label_by_name(name, user_id) ==
    {l \in DOMAIN labels : labels[l].name = name /\ labels[l].user_id = user_id}

app_create_label(token, name) ==
    /\ variant = "app"
    /\ LET auth == app_get_current_user(token)
       IN  IF auth.status # 200
           THEN /\ resp' = Resp("create_label", token, auth.status, {}, 0, labels)
                /\ UNCHANGED <<labels, next_label>>
           ELSE \E u \in auth.uid :
                IF get_label_by_name(name, u) # {}
                THEN /\ resp' = Resp("create_label", token, 400, auth.uid, 0, labels)
                     /\ UNCHANGED <<labels, next_label>>
                ELSE /\ next_label <= MaxLabels
                     /\ labels' = Insert(labels, next_label, LabelDoc(u, name))
                     /\ next_label' = next_label + 1
                     /\ resp' = Resp("create_label", token, 200, auth.uid, next_label, labels)
    /\ UNCHANGED <<variant, users, tasks, next_user, next_task, wallet, now>>

app_get_label(token, label_id) ==
    /\ variant = "app"
    /\ LET auth == app_get_current_user(token)
           status == IF auth.status # 200 THEN auth.status
                     ELSE IF ~ObjectId_is_valid(label_id) THEN 500
                     ELSE IF ~(label_id \in DOMAIN labels /\ labels[label_id].user_id \in auth.uid)
                          THEN 404
                     ELSE 200
       IN  resp' = Resp("get_label", token, status, auth.uid, label_id, labels)
    /\ UNCHANGED <<variant, store, wallet, now>>

\* label_update.name is <<>> (unset) or <<name>>; the name conflict is
\* tested before the label is looked up
app_update_label(token, label_id, name) ==
    /\ variant = "app"
    /\ LET auth == app_get_current_user(token)
           status == IF auth.status # 200 THEN auth.status
                     ELSE IF name # <<>> /\ \E u \in auth.uid :
                                  get_label_by_name(name[1], u) \ {label_id} # {}
                          THEN 400
                     ELSE IF ~ObjectId_is_valid(label_id) THEN 500
                     ELSE IF ~(label_id \in DOMAIN labels /\ labels[label_id].user_id \in auth.uid)
                          THEN 404
                     ELSE IF name = <<>> THEN 200
                     ELSE IF name[1] = labels[label_id].name THEN 404
                     ELSE 200
       IN  /\ resp' = Resp("update_label", token, status, auth.uid, label_id, labels)
           /\ labels' = IF status # 200 \/ name = <<>> THEN labels
                        ELSE [labels EXCEPT ![label_id].name = name[1]]
    /\ UNCHANGED <<variant, users, tasks, next_user, next_label, next_task, wallet, now>>

\* get_label_usage_count(db, label_id, user_id)
get_label_usage_count(label_id, user_id) ==
    Cardinality({t \in DOMAIN tasks :
                    tasks[t].user_id = user_id /\ label_id \in tasks[t].labels})

app_delete_label(token, label_id) ==
    /\ variant = "app"
    /\ LET auth == app_get_current_user(token)
           status == IF auth.status # 200 THEN auth.status
                     ELSE IF ~ObjectId_is_valid(label_id) THEN 500
                     ELSE IF \E u \in auth.uid : get_label_usage_count(label_id, u) > 0
                          THEN 400
                     ELSE IF ~(label_id \in DOMAIN labels /\ labels[label_id].user_id \in auth.uid)
                          THEN 404
                     ELSE 200
       IN  /\ resp' = Resp("delete_label", token, status, auth.uid, label_id, labels)
           /\ labels' = IF status # 200 THEN labels ELSE Remove(labels, label_id)
    /\ UNCHANGED <<variant, users, tasks, next_user, next_label, next_task, wallet, now>>

----------------------------------------------------------------------------
(* The service *)

OptName == {<<>>} \cup {<<n>> : n \in LabelNames}
OptEmail == {<<>>} \cup {<<e>> : e \in Emails}

\* Bodies of a task update: nothing set, the status alone, or the labels alone
TaskUpdates(S, L) ==
    {[status |-> <<>>, labels |-> <<>>]}
        \cup {[status |-> <<x>>, labels |-> <<>>] : x \in S}
        \cup {[status |-> <<>>, labels |-> <<ls>>] : ls \in L}

Init ==
    /\ variant \in Variants
    /\ users = EmptyColl /\ labels = EmptyColl /\ tasks = EmptyColl
    /\ next_user = 1 /\ next_label = 1 /\ next_task = 1
    /\ wallet = NoWallet
    /\ now = 0
    /\ resp = NoResp
    /\ MachineryInit

\* The client reads the answer before it sends its next request
receive ==
    /\ resp # NoResp
    /\ resp' = NoResp
    /\ UNCHANGED <<variant, store, wallet, now>>

\* Opening a session: backend/api/v1/auth.py register and login
SessionNext ==
    \/ \E email \in Emails : register(email, "Secret123!")
    \/ \E email \in Emails, password \in Passwords : login(email, password)

\* The other endpoints of backend/api/v1/auth.py, and account deactivation
AccountNext ==
    \/ \E email \in Emails, password \in Passwords : login_json(email, password)
    \/ demo_login
    \/ \E token \in Presentable : refresh_token(token)
    \/ \E token \in Presentable, name_given \in BOOLEAN, email \in OptEmail :
            update_profile(token, name_given, email)
    \/ \E u \in 1..MaxUsers : deactivate(u)

GuardTaskNext ==
    \/ \E token \in Presentable, ls \in StoredLabelLists : guard_create_task(token, ls)
    \/ \E token \in Presentable, id \in TaskIdInputs : guard_get_task(token, id)
    \/ \E token \in Presentable, id \in TaskIdInputs, upd \in TaskUpdates(StatusInputs, StoredLabelLists) :
            guard_update_task(token, id, upd.status, upd.labels)
    \/ \E token \in Presentable, id \in TaskIdInputs, st \in StatusInputs :
            guard_update_task_status(token, id, st)
    \/ \E token \in Presentable, id \in TaskIdInputs : guard_delete_task(token, id)

GuardLabelNext ==
    \/ \E token \in Presentable, name \in LabelNames : guard_create_label(token, name)
    \/ \E token \in Presentable, id \in LabelIdInputs : guard_get_label(token, id)
    \/ \E token \in Presentable, id \in LabelIdInputs, name \in OptName :
            guard_update_label(token, id, name)
    \/ \E token \in Presentable, id \in LabelIdInputs : guard_delete_label(token, id)

InlineNext ==
    \/ \E token \in Presentable, ls \in LabelIdLists : inline_create_task(token, ls)
    \/ \E token \in Presentable, id \in TaskIdInputs : inline_get_task(token, id)
    \/ \E token \in Presentable, id \in TaskIdInputs, upd \in TaskUpdates({"complete"}, LabelIdLists) :
            inline_update_task(token, id, upd.status, upd.labels)
    \/ \E token \in Presentable, id \in TaskIdInputs, st \in InlineStatus \cup {"pending"} :
            inline_update_task_status(token, id, st)
    \/ \E token \in Presentable, id \in TaskIdInputs : inline_delete_task(token, id)
    \/ \E token \in Presentable, name \in LabelNames : inline_create_label(token, name)
    \/ \E token \in Presentable, id \in LabelIdInputs : inline_get_label(token, id)
    \/ \E token \in Presentable, id \in LabelIdInputs, name \in OptName :
            inline_update_label(token, id, name)
    \/ \E token \in Presentable, id \in LabelIdInputs : inline_delete_label(token, id)

AppAccountNext ==
    \/ \E email \in Emails : app_register(email, "Secret123!")
    \/ \E email \in Emails, password \in Passwords : app_login(email, password)

AppTaskNext ==
    \/ \E token \in Presentable, ls \in LabelIdLists : app_create_task(token, ls)
    \/ \E token \in Presentable, id \in TaskIdInputs : app_get_task(token, id)
    \/ \E token \in Presentable, id \in TaskIdInputs, upd \in TaskUpdates({"true"}, LabelIdLists) :
            app_update_task(token, id, upd.status, upd.labels)
    \/ \E token \in Presentable, id \in TaskIdInputs : app_delete_task(token, id)

AppLabelNext ==
    \/ \E token \in Presentable, name \in LabelNames : app_create_label(token, name)
    \/ \E token \in Presentable, id \in LabelIdInputs : app_get_label(token, id)
    \/ \E token \in Presentable, id \in LabelIdInputs, name \in OptName :
            app_update_label(token, id, name)
    \/ \E token \in Presentable, id \in LabelIdInputs : app_delete_label(token, id)

\* The guard routes behind the session endpoints
GuardRequest == SessionNext \/ GuardTaskNext \/ GuardLabelNext
GuardSpec ==
    (Init /\ variant = "guard") /\ [][((resp = NoResp /\ GuardRequest) \/ receive) /\ UNCHANGED machinery]_vars

\* backend/main.py: the inline routes, the session endpoints and the admin route
InlineRequest == SessionNext \/ clear_all_data \/ InlineNext
InlineSpec ==
    (Init /\ variant = "inline") /\ [][((resp = NoResp /\ InlineRequest) \/ receive) /\ UNCHANGED machinery]_vars

\* app/main.py
AppRequest == AppAccountNext \/ AppTaskNext \/ AppLabelNext
AppSpec == (Init /\ variant = "app") /\ [][((resp = NoResp /\ AppRequest) \/ receive) /\ UNCHANGED machinery]_vars

\* app/main.py's accounts, switched off by an operator, and its task routes
AppAccountRequest == AppAccountNext \/ AppTaskNext \/ (\E u \in 1..MaxUsers : deactivate(u))
AppAccountSpec ==
    (Init /\ variant = "app") /\ [][((resp = NoResp /\ AppAccountRequest) \/ receive) /\ UNCHANGED machinery]_vars

\* Accounts and tokens over time, probed through the guard task routes
IdentityRequest == SessionNext \/ AccountNext \/ clear_all_data \/ GuardTaskNext \/ Tick
IdentitySpec ==
    (Init /\ variant = "guard") /\ [][((resp = NoResp /\ IdentityRequest) \/ receive) /\ UNCHANGED machinery]_vars

----------------------------------------------------------------------------
(* Properties *)

ItemOps == {"get_task", "update_task", "update_task_status", "delete_task",
            "get_label", "update_label", "delete_label"}
ProtectedOps == ItemOps \cup {"create_task", "create_label"}

\* t is a token of this service, validly signed, unexpired at time `at`
TokenIsGood(t, at) ==
    /\ t.form = "jwt" /\ t.sig = "valid" /\ t.exp >= at /\ t.sub # <<>>

\* the stored users a token subject names, by id or by email
Named(sub) ==
    IF sub.kind = "id" THEN {sub.id} \cap DOMAIN users ELSE FindByEmail(sub.email)

(* C1: a task or label document is modified or deleted only by a request   *)
(* whose resolved identity equals the document's user_id; a request with   *)
(* another user's token, or with no token, changes or removes none.        *)
C1_OwnerOnlyModification ==
    [][/\ \A t \in DOMAIN tasks :
            (t \notin DOMAIN tasks' \/ tasks'[t] # tasks[t])
                => tasks[t].user_id \in resp'.caller
       /\ \A l \in DOMAIN labels :
            (l \notin DOMAIN labels' \/ labels'[l] # labels[l])
                => labels[l].user_id \in resp'.caller]_vars

C3_ForbiddenForOthers ==
    [][(/\ resp = NoResp
        /\ resp'.op \in ItemOps \ {"update_task_status"}
        /\ resp'.caller # {}
        /\ resp'.existed /\ resp'.owner \cap resp'.caller = {})
            => (resp'.status = 403 /\ UNCHANGED store)]_vars

C5_VerifyNeverRaises ==
    resp.op = "verify_token" =>
        IF TokenIsGood(resp.call.token, resp.at)
        THEN resp.result = [kind |-> "sub", sub |-> resp.call.token.sub[1]]
        ELSE resp.result = [kind |-> "None"]

(* C6: a token issued with subject S and a ttl > 0 verifies to S at every  *)
(* time before issue time + ttl and to None at every time after it; a      *)
(* token issued with a non-positive expires_delta is never accepted.       *)
C6_TokenLifetime ==
    (resp.op = "verify_token" /\ resp.call.src = "create_access_token"
        /\ resp.call.data # <<>>) =>
        LET S == resp.call.data[1]
            ttl == IF resp.call.delta = NoDelta THEN ACCESS_TOKEN_EXPIRE_MINUTES
                   ELSE resp.call.delta[1]
            expiry == resp.call.iat + ttl
        IN  /\ (ttl > 0 /\ resp.at < expiry) => resp.result = [kind |-> "sub", sub |-> S]
            /\ (ttl > 0 /\ resp.at > expiry) => resp.result = [kind |-> "None"]
            /\ ttl <= 0 => resp.result.kind # "sub"

(* C7: identity resolution rejects, in this order, a token that verifies   *)
(* to null (401), a subject that matches no stored user (401) and a user   *)
(* whose is_active is false (400, never 401); only an active, stored user  *)
(* is returned to a protected handler.                                     *)
C7_ResolverOutcomes ==
    resp.op \in ProtectedOps =>
        LET user_id == verify_token(resp.token, now)
        IN  IF user_id.kind # "sub" THEN resp.status = 401
            ELSE IF Named(user_id.sub) = {} THEN resp.status = 401
            ELSE IF \E u \in Named(user_id.sub) : ~users[u].is_active
                 THEN resp.status = 400
            ELSE resp.caller = Named(user_id.sub)

(* C8: a bearer token issued to a user by an issuing endpoint (register,   *)
(* login, login/json, demo, refresh) resolves, when presented before it    *)
(* expires, to that same user, whether its subject is the user's id or     *)
(* the user's email.                                                       *)
C8_IssuedTokenResolves ==
    (/\ resp.op \in ProtectedOps
     /\ wallet.src = "create_access_token"
     /\ resp.token = wallet.token
     /\ wallet.token.exp >= now
     /\ \A u \in wallet.owner : u \in DOMAIN users /\ users[u].is_active)
        => resp.caller = wallet.owner

C10_CascadeDelete ==
    [][(resp = NoResp /\ resp'.op = "delete_label" /\ resp'.status = 204) =>
        LET L == resp'.id
            U == resp'.caller
        IN  /\ L \in DOMAIN labels /\ labels[L].user_id \in U
            /\ labels' = Remove(labels, L)
            /\ DOMAIN tasks' = DOMAIN tasks
            /\ \A t \in DOMAIN tasks :
                IF tasks[t].user_id \in U
                THEN /\ L \notin tasks'[t].labels
                     /\ tasks'[t] = [tasks[t] EXCEPT !.labels = @ \ {L}]
                ELSE tasks'[t] = tasks[t]
            /\ UNCHANGED users]_vars

C10_Witness ==
    /\ resp.op = "delete_label" /\ resp.status = 204
    /\ resp.id \notin DOMAIN labels
    /\ \E t \in DOMAIN tasks : tasks[t].user_id \in resp.caller

(* C11: usage guard on label deletion.  A delete_label request whose       *)
(* caller owns a task referring to the label is answered 400 and changes   *)
(* nothing; a label is removed only when no stored task refers to it; the  *)
(* request never changes a task.                                           *)
C11_UsageGuard ==
    [][(resp = NoResp /\ resp'.op = "delete_label" /\ resp'.caller # {}) =>
          LET L == resp'.id
          IN  /\ (\E t \in DOMAIN tasks :
                      tasks[t].user_id \in resp'.caller /\ L \in tasks[t].labels)
                  => (resp'.status = 400 /\ UNCHANGED store)
              /\ (L \in DOMAIN labels /\ L \notin DOMAIN labels')
                  => \A t \in DOMAIN tasks : L \notin tasks[t].labels
              /\ tasks' = tasks]_vars

\* The account endpoints of backend/api/v1/auth.py on their own
AccountRequest == SessionNext \/ AccountNext
AccountSpec ==
    (Init /\ variant = "inline") /\ [][((resp = NoResp /\ AccountRequest) \/ receive) /\ UNCHANGED machinery]_vars

(* C12: emails are unique across users.  No two stored users have the same  *)
(* email, and a registration with an email some stored user has is          *)
(* answered 400 and stores neither a user nor labels (any other             *)
(* registration is answered 201).                                           *)
C12_EmailUnique ==
    /\ [](\A u1, u2 \in DOMAIN users : users[u1].email = users[u2].email => u1 = u2)
    /\ [][\A email \in Emails :
            (resp = NoResp /\ register(email, "Secret123!")) =>
                IF \E u \in DOMAIN users : users[u].email = email
                THEN resp'.status = 400 /\ UNCHANGED store
                ELSE resp'.status = 201]_vars

\* a registration is refused while two users are stored, one of whom
\* changed the email through the profile
C12_Witness ==
    /\ resp.op = "register" /\ resp.status = 400
    /\ Cardinality(DOMAIN users) = 2
    /\ users[1].email = "bob@example.com" /\ users[2].email = "alice@example.com"

(* C13: login issues a token if and only if a user with the given email    *)
(* is stored, the password verifies against its hash and the user is       *)
(* active.  An unknown email and a wrong password get the same 401         *)
(* response, an inactive user with the right password gets 400, and login  *)
(* changes nothing in the store.                                           *)
C13_LoginOutcomes ==
    [][\A email \in Emails, password \in Passwords :
          (resp = NoResp /\ (login(email, password) \/ app_login(email, password))) =>
              LET user == {u \in DOMAIN users : users[u].email = email}
                  verified == user # {} /\ \A u \in user :
                                  users[u].hashed_password = get_password_hash(password)
              IN  /\ UNCHANGED store
                  /\ IF ~verified
                     THEN /\ resp' = [op |-> "login", status |-> 401, caller |-> {}, id |-> 0]
                          /\ wallet' = wallet
                     ELSE IF \E u \in user : ~users[u].is_active
                     THEN resp'.status = 400 /\ wallet' = wallet
                     ELSE /\ resp'.status = 200 /\ resp'.id \in user
                          /\ wallet'.src = "create_access_token"
                          /\ wallet'.owner = user /\ wallet'.iat = now]_vars

(* C14: for a resolved caller, a get, update or delete of a task id that   *)
(* identifies no stored task (an id that is not a well-formed object id    *)
(* included) is answered 404 and changes nothing in the store.             *)
C14_AbsentTaskNotFound ==
    [][(/\ resp = NoResp
        /\ resp'.op \in {"get_task", "update_task", "delete_task"}
        /\ resp'.caller # {}
        /\ resp'.id \notin DOMAIN tasks)
          => (resp'.status = 404 /\ UNCHANGED store)]_vars

\* The guard task routes with the listing, behind the session endpoints
StatusFilters == {<<>>, <<"completed">>}
TaskListRequest ==
    \/ SessionNext
    \/ GuardTaskNext
    \/ \E token \in Presentable, status_filter \in StatusFilters :
            guard_get_tasks(token, status_filter)
TaskListSpec ==
    (Init /\ variant = "guard") /\ [][((resp = NoResp /\ TaskListRequest) \/ receive) /\ UNCHANGED machinery]_vars

OwnerRequest ==
    \/ SessionNext
    \/ GuardTaskNext
    \/ \E task_id \in TaskIdInputs, label_id \in LabelRefs : add_label(task_id, label_id)
    \/ \E task_id \in TaskIdInputs, label_id \in LabelRefs : remove_label(task_id, label_id)
    \/ \E token \in Presentable, ls \in LabelIdLists : inline_create_task(token, ls)
    \/ \E token \in Presentable, id \in TaskIdInputs, upd \in TaskUpdates({"complete"}, LabelIdLists) :
            inline_update_task(token, id, upd.status, upd.labels)
    \/ \E token \in Presentable, id \in TaskIdInputs, st \in InlineStatus :
            inline_update_task_status(token, id, st)
    \/ \E token \in Presentable, id \in LabelIdInputs : inline_delete_label(token, id)
OwnerSpec ==
    (Init /\ variant \in {"guard", "inline"})
        /\ [][((resp = NoResp /\ OwnerRequest) \/ receive) /\ UNCHANGED machinery]_vars

(* C16: the owner of a task never changes.  In every step, a task that is  *)
(* stored before and after has the same user_id.                           *)
C16_OwnerImmutable ==
    [][\A t \in DOMAIN tasks \cap DOMAIN tasks' : tasks'[t].user_id = tasks[t].user_id]_vars

\* a label is added to a task directly after its owner completed it
C16_Witness ==
    /\ resp.op = "add_label" /\ resp.result = "Task"
    /\ tasks[resp.id].status = "completed"
    /\ tasks[resp.id].labels = {0, 1}
    /\ tasks[resp.id].user_id = 2

\* The password functions driven directly, as test_password_hashing does:
\* a password is hashed, then plain passwords are verified against the hash
PasswordInputs ==
    {"", "a", "A", "Secret123!", "secret123!", "wrong", "demo123",
     "TestPassword123!", "WrongPassword123!", "$pbkdf2-sha256$a"}

call_get_password_hash ==
    \E password \in PasswordInputs :
        /\ resp' = [op |-> "get_password_hash", password |-> password,
                    hashed |-> get_password_hash(password)]
        /\ UNCHANGED <<variant, store, wallet, now>>

call_verify_password ==
    /\ resp.op \in {"get_password_hash", "verify_password"}
    /\ \E plain_password \in PasswordInputs :
        resp' = [op |-> "verify_password", password |-> resp.password,
                 hashed |-> resp.hashed, plain |-> plain_password,
                 result |-> verify_password(plain_password, resp.hashed)]
    /\ UNCHANGED <<variant, store, wallet, now>>

PasswordSpec ==
    TokenInit /\ [][(call_get_password_hash \/ call_verify_password) /\ UNCHANGED machinery]_vars

CacheKeys == {"tasks:1", "labels:1"}
CacheValues == {"a", "b"}

\* ttl arguments of set, in units of the clock: <<>> is None
TtlInputs == {<<>>, <<0>>, <<1>>}

\* json.dumps / json.loads of a string
serialize_value(value) == "\"" \o value \o "\""

deserialize_value(value) == IF value = "\"a\"" THEN "a" ELSE "b"

\* the Redis server holds a key until its expiry time is reached
redis_has(key) ==
    /\ key \in DOMAIN cache.redis
    /\ \/ cache.redis[key].expire = <<>>
       \/ now < cache.redis[key].expire[1]

\* a call of the cache manager, the time it was made at, and what it returned
CacheResp(op, key, result) == [op |-> op, key |-> key, at |-> now, result |-> result]

\* CacheManager.get: <<>> is None
cache_get(key) ==
    /\ resp' = CacheResp("cache_get", key,
                   IF cache.redis_client
                   THEN IF redis_has(key)
                        THEN <<deserialize_value(cache.redis[key].value)>>
                        ELSE <<>>
                   ELSE IF key \in DOMAIN cache.memory_cache
                        THEN <<cache.memory_cache[key]>>
                        ELSE <<>>)
    /\ UNCHANGED cache

\* CacheManager.set: "if ttl:" chooses SETEX over SET on the Redis side; the
\* in-memory branch stores the value and does not look at ttl
cache_set(key, value, ttl) ==
    /\ cache' = IF cache.redis_client
                THEN [cache EXCEPT
                        !.redis = Insert(@, key,
                            [value |-> serialize_value(value),
                             expire |-> IF ttl # <<>> /\ ttl[1] # 0
                                        THEN <<now + ttl[1]>> ELSE <<>>]),
                        !.written = Insert(@, key, [at |-> now, ttl |-> ttl])]
                ELSE [cache EXCEPT
                        !.memory_cache = Insert(@, key, value),
                        !.written = Insert(@, key, [at |-> now, ttl |-> ttl])]
    /\ resp' = CacheResp("cache_set", key, TRUE)

\* CacheManager.delete
cache_delete(key) ==
    /\ cache' = [cache EXCEPT !.redis = Remove(@, key),
                              !.memory_cache = Remove(@, key),
                              !.written = Remove(@, key)]
    /\ resp' = CacheResp("cache_delete", key,
                   IF cache.redis_client THEN redis_has(key)
                   ELSE key \in DOMAIN cache.memory_cache)

\* CacheManager.exists
cache_exists(key) ==
    /\ resp' = CacheResp("cache_exists", key,
                   IF cache.redis_client THEN redis_has(key)
                   ELSE key \in DOMAIN cache.memory_cache)
    /\ UNCHANGED cache

\* time passes between two cache calls
cache_tick ==
    /\ now < MaxTime
    /\ now' = now + 1
    /\ UNCHANGED <<cache, resp>>

CacheCall ==
    /\ \E key \in CacheKeys :
         \/ cache_get(key)
         \/ cache_exists(key)
         \/ cache_delete(key)
         \/ \E value \in CacheValues, ttl \in TtlInputs : cache_set(key, value, ttl)
    /\ now' = now

CacheFrame ==
    UNCHANGED <<variant, store, wallet, environment, error_tracker, retry,
                limiter, inflight, mongo>>

\* a CacheManager constructed with or without a reachable Redis server
CacheInit ==
    /\ variant = "guard"
    /\ users = EmptyColl /\ labels = EmptyColl /\ tasks = EmptyColl
    /\ next_user = 1 /\ next_label = 1 /\ next_task = 1
    /\ wallet = NoWallet
    /\ now = 0
    /\ resp = NoResp
    /\ \E redis_available \in BOOLEAN : cache = CacheManager_init(redis_available)
    /\ environment = "production"
    /\ error_tracker = ErrorTracker_init
    /\ retry = NoRetry
    /\ limiter = [redis_client |-> FALSE, counters |-> EmptyColl, made |-> EmptyColl]
    /\ inflight = EmptyColl
    /\ mongo = [database |-> "None", ready |-> {}, calls |-> EmptyColl,
               held |-> EmptyColl]

CacheSpec == CacheInit /\ [][(CacheCall \/ cache_tick) /\ CacheFrame]_vars

\* C18: a get (or exists) of a key whose last set carried a positive ttl,
\* made once that ttl has elapsed, returns None (or False), with the Redis
\* backend and with the in-memory fallback alike.
C18_TtlElapsed ==
    (/\ resp.op \in {"cache_get", "cache_exists"}
     /\ resp.key \in DOMAIN cache.written
     /\ cache.written[resp.key].ttl \notin {<<>>, <<0>>}
     /\ resp.at >= cache.written[resp.key].at + cache.written[resp.key].ttl[1])
        => resp.result = (IF resp.op = "cache_get" THEN <<>> ELSE FALSE)

\* the same with the Redis backend alone
RedisTtlElapsed ==
    (/\ cache.redis_client
     /\ resp.op \in {"cache_get", "cache_exists"}
     /\ resp.key \in DOMAIN cache.written
     /\ cache.written[resp.key].ttl \notin {<<>>, <<0>>}
     /\ resp.at >= cache.written[resp.key].at + cache.written[resp.key].ttl[1])
        => resp.result = (IF resp.op = "cache_get" THEN <<>> ELSE FALSE)

\* ---------------------------------------------------------------------------
\* Error handling (backend/core/error_handling.py, backend/main.py)
\* ---------------------------------------------------------------------------

MaxErrors == 3

max_retries == 3

Environments == {"production", "development"}

\* AppError(message, category, severity, status_code)
AppError(message, category, status_code) ==
    [kind |-> "AppError", message |-> message, category |-> category,
     status_code |-> status_code]

authentication_error == AppError("Authentication required", "authentication", 401)

authorization_error == AppError("Insufficient permissions", "authorization", 403)

\* the exceptions an operation can end with
Errors ==
    {authentication_error, authorization_error,
     [kind |-> "HTTPException", status_code |-> 404, detail |-> "Task not found"],
     [kind |-> "Exception", message |-> "E11000 duplicate key error"],
     [kind |-> "Exception", message |-> "connection refused"]}

\* str(error)
error_str(error) == IF error.kind = "HTTPException" THEN error.detail ELSE error.message

max_recent_errors == 3

RECURSIVE sum_values(_)
sum_values(counts) ==
    IF DOMAIN counts = {} THEN 0
    ELSE LET k == CHOOSE k \in DOMAIN counts : TRUE
         IN  counts[k] + sum_values(Remove(counts, k))

\* ErrorTracker.get_error_stats
get_error_stats ==
    LET n == Len(error_tracker.recent_errors)
    IN  [total_errors |-> sum_values(error_tracker.error_counts),
         error_counts |-> error_tracker.error_counts,
         recent_errors_count |-> n,
         recent_errors |-> SubSeq(error_tracker.recent_errors,
                                  IF n > 10 THEN n - 9 ELSE 1, n)]

\* uuid.uuid4(): an id that was never handed out before
uuid4 == get_error_stats.total_errors + 1

\* a tracker that never drops an entry from recent_errors
track_error_uncapped(error, error_id) ==
    [error_counts |->
        Insert(error_tracker.error_counts, error.kind,
               IF error.kind \in DOMAIN error_tracker.error_counts
               THEN error_tracker.error_counts[error.kind] + 1 ELSE 1),
     recent_errors |->
        Append(error_tracker.recent_errors,
               [error_id |-> error_id, type |-> error.kind,
                message |-> error_str(error)])]

\* ErrorTracker.track_error: the tracker after recording error under error_id
track_error(error, error_id) ==
    [error_counts |->
        Insert(error_tracker.error_counts, error.kind,
               IF error.kind \in DOMAIN error_tracker.error_counts
               THEN error_tracker.error_counts[error.kind] + 1 ELSE 1),
     recent_errors |->
        LET appended == Append(error_tracker.recent_errors,
                               [error_id |-> error_id, type |-> error.kind,
                                message |-> error_str(error)])
        IN  IF Len(appended) > max_recent_errors THEN Tail(appended)
            ELSE appended]

\* traceback.format_exc() ends with the exception's type and message
format_exc(error) == "Traceback (most recent call last): " \o error_str(error)

ErrorResp(op, error, status_code, body) ==
    [op |-> op, error |-> error, status |-> status_code, body |-> body]

\* create_error_response(error): include_details only matters for an AppError
\* with details, and none of Errors has any
create_error_response(error) ==
    /\ get_error_stats.total_errors < MaxErrors
    /\ LET error_id == uuid4
           status_code == IF error.kind = "Exception" THEN 500 ELSE error.status_code
           message == IF error.kind = "AppError" THEN error.message
                      ELSE IF error.kind = "HTTPException" THEN error.detail
                      ELSE "Internal server error"
           category == IF error.kind = "AppError" THEN error.category
                       ELSE IF error.kind = "HTTPException" THEN "validation"
                       ELSE "internal"
           response_data == [id |-> error_id, message |-> message,
                             category |-> category, status_code |-> status_code,
                             timestamp |-> now]
       IN /\ error_tracker' = track_error(error, error_id)
          /\ resp' = ErrorResp("create_error_response", error, status_code,
                        IF environment = "development"
                        THEN [id |-> error_id, message |-> message,
                              category |-> category, status_code |-> status_code,
                              timestamp |-> now, traceback |-> format_exc(error)]
                        ELSE response_data)
    /\ UNCHANGED retry

\* main.py: @app.exception_handler(500), reached by every exception that no
\* other handler took, an AppError included
internal_server_error_handler(exc) ==
    /\ exc.kind # "HTTPException"
    /\ resp' = ErrorResp("internal_server_error_handler", exc, 500,
                   [code |-> 500, message |-> "Internal Server Error",
                    detail |-> "An unexpected error occurred",
                    type |-> "internal_error"])
    /\ UNCHANGED <<error_tracker, retry>>

Operations == {"get_tasks", "create_label"}

\* handle_async_error(func): the call starts with attempt 0
handle_async_error(func) ==
    /\ ~retry.running
    /\ retry' = [running |-> TRUE, func |-> func, attempt |-> 0, last |-> <<>>]
    /\ resp' = NoResp
    /\ UNCHANGED error_tracker

\* one turn of the loop: await func(), and on an exception either give up (the
\* last attempt) or sleep and go round again
handle_async_error_attempt(outcome) ==
    /\ retry.running
    /\ IF outcome = <<>>
       THEN /\ resp' = [op |-> "handle_async_error", func |-> retry.func,
                        ok |-> TRUE, calls |-> retry.attempt + 1]
            /\ retry' = NoRetry
       ELSE IF retry.attempt = max_retries - 1
       THEN /\ resp' = [op |-> "handle_async_error", func |-> retry.func,
                        ok |-> FALSE, error |-> outcome[1],
                        calls |-> retry.attempt + 1]
            /\ retry' = NoRetry
       ELSE /\ retry' = [retry EXCEPT !.attempt = @ + 1, !.last = outcome]
            /\ resp' = resp
    /\ UNCHANGED error_tracker

ErrorNext ==
    \/ \E error \in Errors : create_error_response(error)
    \/ \E exc \in Errors : internal_server_error_handler(exc)
    \/ \E func \in Operations : handle_async_error(func)
    \/ \E outcome \in {<<>>} \cup {<<e>> : e \in Errors} : handle_async_error_attempt(outcome)

ErrorFrame ==
    UNCHANGED <<variant, store, wallet, now, cache, environment, limiter, inflight, mongo>>

ErrorInit ==
    /\ variant = "guard"
    /\ users = EmptyColl /\ labels = EmptyColl /\ tasks = EmptyColl
    /\ next_user = 1 /\ next_label = 1 /\ next_task = 1
    /\ wallet = NoWallet
    /\ now = 0
    /\ resp = NoResp
    /\ cache = CacheManager_init(FALSE)
    /\ environment \in Environments
    /\ error_tracker = ErrorTracker_init
    /\ retry = NoRetry
    /\ limiter = [redis_client |-> FALSE, counters |-> EmptyColl, made |-> EmptyColl]
    /\ inflight = EmptyColl
    /\ mongo = [database |-> "None", ready |-> {}, calls |-> EmptyColl,
               held |-> EmptyColl]

ErrorSpec == ErrorInit /\ [][ErrorNext /\ ErrorFrame]_vars

IssuedIds == {error_tracker.recent_errors[i].error_id : i \in DOMAIN error_tracker.recent_errors}

\* the response body carries neither a traceback nor the exception's message
Opaque(body, error) ==
    /\ "traceback" \notin DOMAIN body
    /\ \A f \in DOMAIN body \cap {"message", "detail"} : body[f] # error.message

\* what C19 asks of the response to a failure that is a plain exception
OpaqueInternalError(error) ==
    /\ resp'.status = 500
    /\ "id" \in DOMAIN resp'.body
    /\ resp'.body.id \notin IssuedIds
    /\ resp'.body.message = "Internal server error"
    /\ environment # "development" => Opaque(resp'.body, error)

\* C19: a failure that is neither an AppError nor an HTTPException is answered
\* with status 500, a fresh error id and the message "Internal server error",
\* and outside development the body has no traceback and no exception message.
C19_OpaqueInternalError ==
    [][\A error \in Errors :
          (/\ error.kind = "Exception"
           /\ \/ create_error_response(error)
              \/ internal_server_error_handler(error))
            => OpaqueInternalError(error)]_vars

\* the same for create_error_response alone
CreateErrorResponseOpaque ==
    [][\A error \in Errors :
          (error.kind = "Exception" /\ create_error_response(error))
            => OpaqueInternalError(error)]_vars

AuthFailure(error) == error.kind # "Exception" /\ error.status_code \in {401, 403}

\* C20: an operation that failed with an authentication (401) or authorization
\* (403) error is not invoked again by handle_async_error.
C20_AuthFailureNotRetried ==
    [][(retry.running /\ retry' # retry)
          => (retry.last = <<>> \/ ~AuthFailure(retry.last[1]))]_vars

\* an operation is invoked at most max_retries times, and again only after a failure
RetryBounded ==
    /\ retry.running => retry.attempt < max_retries /\ (retry.attempt > 0 <=> retry.last # <<>>)
    /\ resp.op = "handle_async_error" => resp.calls \in 1..max_retries

\* C21: an update of a label the caller owns to a name no other label of the
\* caller bears, the current name included, is answered 200 and stores the
\* name; an update of a task the caller owns is answered 200 and stores the
\* submitted fields, the current values included.
C21_UpdateSucceeds ==
    [][/\ \A token \in Presentable, id \in LabelIdInputs, name \in LabelNames :
            (/\ resp = NoResp
             /\ guard_update_label(token, id, <<name>>)
             /\ get_current_user(token).status = 200
             /\ id \in DOMAIN labels
             /\ labels[id].user_id \in get_current_user(token).uid
             /\ ~is_name_taken(name, labels[id].user_id, {id}))
                => (resp'.status = 200 /\ labels'[id].name = name)
       /\ \A token \in Presentable, id \in TaskIdInputs, st \in StatusInputs :
            (/\ resp = NoResp
             /\ guard_update_task(token, id, <<st>>, <<>>)
             /\ get_current_user(token).status = 200
             /\ id \in DOMAIN tasks
             /\ tasks[id].user_id \in get_current_user(token).uid)
                => (resp'.status = 200 /\ tasks'[id].status = st)]_vars

\* ---------------------------------------------------------------------------
\* Task statistics (src/crud/task.py get_stats, src/api/v1/tasks.py)
\* ---------------------------------------------------------------------------

\* status strings of an update body: TaskUpdate.status is any string
StatusStrings == {"in_progress", "archived"}

\* the aggregation: $match on user_id, then $group by status with a count
aggregate_by_status(user_id) ==
    {[id |-> s, count |-> Cardinality({t \in DOMAIN tasks :
                                tasks[t].user_id = user_id /\ tasks[t].status = s})] :
        s \in {tasks[t].status : t \in {x \in DOMAIN tasks : tasks[x].user_id = user_id}}}

\* the loop of get_stats over the groups: total += count; stats[status] = count
RECURSIVE fold_stats(_, _)
fold_stats(stats, docs) ==
    IF docs = {} THEN stats
    ELSE LET doc == CHOOSE d \in docs : TRUE
         IN  fold_stats(Insert(Insert(stats, "total", stats["total"] + doc.count),
                               doc.id, doc.count),
                        docs \ {doc})

\* TaskCRUD.get_stats(user_id)
get_stats(user_id) ==
    fold_stats([k \in {"total", "pending", "in_progress", "completed"} |-> 0],
               aggregate_by_status(user_id))

\* GET /tasks/stats: TaskStats(**stats) keeps the four fields of the schema
guard_get_task_stats(token) ==
    /\ variant = "guard"
    /\ LET auth == get_current_user(token)
       IN  IF auth.status # 200
           THEN resp' = [op |-> "get_task_stats", token |-> token,
                         status |-> auth.status, caller |-> {}]
           ELSE \E u \in auth.uid :
                resp' = [op |-> "get_task_stats", token |-> token, status |-> 200,
                         caller |-> auth.uid,
                         stats |-> [k \in {"total", "pending", "in_progress", "completed"}
                                        |-> get_stats(u)[k]]]
    /\ UNCHANGED <<variant, store, wallet, now>>

StatsRequest ==
    \/ SessionNext
    \/ \E token \in Presentable : guard_create_task(token, {})
    \/ \E token \in Presentable, id \in TaskIdInputs, st \in StatusStrings :
            guard_update_task(token, id, <<st>>, <<>>)
    \/ \E token \in Presentable : guard_get_task_stats(token)

StatsSpec ==
    (Init /\ variant = "guard")
        /\ [][((resp = NoResp /\ StatsRequest) \/ receive) /\ UNCHANGED machinery]_vars

StatsScoped ==
    (resp.op = "get_task_stats" /\ resp.status = 200)
        => \A u \in resp.caller :
              LET mine == {t \in DOMAIN tasks : tasks[t].user_id = u}
              IN  /\ resp.stats["total"] = Cardinality(mine)
                  /\ \A s \in TaskStatus :
                        resp.stats[s] = Cardinality({t \in mine : tasks[t].status = s})

\* C23: a status update changes nothing but the status of the addressed task,
\* and that only to "incomplete" or "complete"; a request for any other status
\* on a task of the caller is answered 400, and every refused request (400,
\* 401, 404) leaves the store as it was.
C23_StatusUpdateFrame ==
    [][/\ (resp = NoResp /\ resp'.op = "update_task_status") =>
            /\ UNCHANGED <<users, labels, next_user, next_label, next_task>>
            /\ DOMAIN tasks' = DOMAIN tasks
            /\ \A t \in DOMAIN tasks : t # resp'.id => tasks'[t] = tasks[t]
            /\ resp'.status # 200 => tasks' = tasks
            /\ resp'.status = 200 =>
                  /\ tasks'[resp'.id].status \in InlineStatus
                  /\ tasks'[resp'.id] = [tasks[resp'.id] EXCEPT !.status = tasks'[resp'.id].status]
       /\ \A token \in Presentable, id \in DOMAIN tasks, st \in {"pending"} :
            (/\ resp = NoResp
             /\ inline_update_task_status(token, id, st)
             /\ get_current_active_user(token).status = 200
             /\ tasks[id].user_id \in get_current_active_user(token).uid)
                => (resp'.status = 400 /\ tasks' = tasks)]_vars

\* a status outside the two was asked for a task of the caller and refused
C23_Witness ==
    /\ resp.op = "update_task_status"
    /\ resp.status = 400
    /\ resp.existed
    /\ resp.caller # {}
    /\ resp.owner = resp.caller
    /\ tasks[resp.id].status = "complete"

\* ---------------------------------------------------------------------------
\* Rate limiting (backend/middleware/rate_limiting.py)
\* ---------------------------------------------------------------------------

MaxChecks == 7

Clients == {"10.0.0.1:1f3a", "10.0.0.2:77c0"}

\* RATE_LIMITS["auth"] = ["5/minute", "20/hour"], periods in units of the clock
RATE_LIMITS_auth == <<[count |-> 5, period |-> "minute"], [count |-> 20, period |-> "hour"]>>

period_seconds(period) == IF period = "minute" THEN 1 ELSE 60

\* the counter Redis holds under rate_limit:<client>:<period>, 0 once expired
redis_counter(key) ==
    IF key \in DOMAIN limiter.counters /\ now < limiter.counters[key].expire
    THEN limiter.counters[key].count ELSE 0

\* _check_single_limit walked over limits[i..]: the counters afterwards and the
\* verdict.  With Redis, INCR and EXPIRE are sent for each limit until one is
\* exceeded; when the pipeline raises (redis_up false) the limit passes and no
\* counter moves.  Without Redis, _check_memory_limit passes every limit.
RECURSIVE check_limits(_, _, _, _, _)
check_limits(client_id, limits, i, redis_up, counters) ==
    IF i > Len(limits) THEN [allowed |-> TRUE, counters |-> counters]
    ELSE IF ~limiter.redis_client \/ ~redis_up
         THEN check_limits(client_id, limits, i + 1, redis_up, counters)
    ELSE LET key == <<client_id, limits[i].period>>
             current_count == redis_counter(key) + 1
             counted == Insert(counters, key,
                               [count |-> current_count,
                                expire |-> now + period_seconds(limits[i].period)])
         IN  IF current_count <= limits[i].count
             THEN check_limits(client_id, limits, i + 1, redis_up, counted)
             ELSE [allowed |-> FALSE, counters |-> counted]

\* the checks a client has made in the current minute that did not fail
checks_made(client_id) ==
    IF client_id \in DOMAIN limiter.made /\ limiter.made[client_id].at = now
    THEN limiter.made[client_id].n ELSE 0

\* check_rate_limit(request, RATE_LIMITS["auth"])
check_rate_limit(client_id, redis_up) ==
    /\ checks_made(client_id) < MaxChecks
    /\ LET out == check_limits(client_id, RATE_LIMITS_auth, 1, redis_up, limiter.counters)
           failed == limiter.redis_client /\ ~redis_up
           nth == IF failed THEN checks_made(client_id) ELSE checks_made(client_id) + 1
       IN  /\ limiter' = [limiter EXCEPT
                            !.counters = out.counters,
                            !.made = Insert(@, client_id, [at |-> now, n |-> nth])]
           /\ resp' = [op |-> "check_rate_limit", client |-> client_id,
                       failed |-> failed, nth |-> nth, allowed |-> out.allowed]

limiter_tick ==
    /\ now < MaxTime
    /\ now' = now + 1
    /\ UNCHANGED <<limiter, resp>>

RateNext ==
    \/ (\E client_id \in Clients, redis_up \in BOOLEAN : check_rate_limit(client_id, redis_up))
            /\ now' = now
    \/ limiter_tick

RateInit ==
    /\ variant = "guard"
    /\ users = EmptyColl /\ labels = EmptyColl /\ tasks = EmptyColl
    /\ next_user = 1 /\ next_label = 1 /\ next_task = 1
    /\ wallet = NoWallet
    /\ now = 0
    /\ resp = NoResp
    /\ cache = CacheManager_init(FALSE)
    /\ environment = "production"
    /\ error_tracker = ErrorTracker_init
    /\ retry = NoRetry
    /\ \E redis_available \in BOOLEAN :
          limiter = [redis_client |-> redis_available, counters |-> EmptyColl,
                     made |-> EmptyColl]
    /\ inflight = EmptyColl
    /\ mongo = [database |-> "None", ready |-> {}, calls |-> EmptyColl,
               held |-> EmptyColl]

RateSpec ==
    RateInit /\ [][RateNext /\ UNCHANGED <<variant, store, wallet, cache, environment,
                                           error_tracker, retry, inflight, mongo>>]_vars

\* C24: of the checks a client makes within one minute the first 5 are allowed
\* and every further one is rejected; a check that fails internally is allowed.
C24_FivePerMinute ==
    resp.op = "check_rate_limit"
        => IF resp.failed THEN resp.allowed ELSE resp.allowed = (resp.nth <= 5)

\* the same when the limiter found Redis at start-up
RedisFivePerMinute == limiter.redis_client => C24_FivePerMinute

\* ---------------------------------------------------------------------------
\* Requests that overlap: each await of a handler is a point where another
\* request can run (src/api/v1/labels.py, backend/api/v1/tasks.py, labels.py)
\* ---------------------------------------------------------------------------

\* the requests that can be in progress at once
Workers == {1, 2}

RaceNames == {"Urgent"}

\* the components no request handler touches
bystanders == <<cache, environment, error_tracker, retry, limiter, mongo>>

\* create_label up to its first await's answer: the caller is resolved and
\* LabelCRUD.is_name_taken has looked for the name
guard_create_label_find(p, token, name) ==
    /\ variant = "guard"
    /\ p \notin DOMAIN inflight
    /\ LET auth == get_current_user(token)
       IN  IF auth.status # 200
           THEN /\ resp' = Resp("create_label", token, auth.status, {}, 0, labels)
                /\ UNCHANGED inflight
           ELSE \E u \in auth.uid :
                IF is_name_taken(name, u, {})
                THEN /\ resp' = Resp("create_label", token, 400, auth.uid, 0, labels)
                     /\ UNCHANGED inflight
                ELSE /\ inflight' = Insert(inflight, p,
                            [op |-> "create_label", token |-> token, user |-> u,
                             name |-> name])
                     /\ resp' = resp
    /\ UNCHANGED <<variant, store, wallet, now>>

\* the rest of create_label: LabelCRUD.create inserts the document.  The
\* database of core.db carries no unique index on labels.
guard_create_label_insert(p) ==
    /\ variant = "guard"
    /\ p \in DOMAIN inflight
    /\ inflight[p].op = "create_label"
    /\ next_label <= MaxLabels
    /\ labels' = Insert(labels, next_label, LabelDoc(inflight[p].user, inflight[p].name))
    /\ next_label' = next_label + 1
    /\ resp' = Resp("create_label", inflight[p].token, 201, {inflight[p].user},
                    next_label, labels)
    /\ inflight' = Remove(inflight, p)
    /\ UNCHANGED <<variant, users, tasks, next_user, next_task, wallet, now>>

LabelRaceNext ==
    \/ resp = NoResp /\ SessionNext /\ UNCHANGED inflight
    \/ resp = NoResp /\ \E p \in Workers, token \in Presentable, name \in RaceNames :
            guard_create_label_find(p, token, name)
    \/ resp = NoResp /\ \E p \in Workers : guard_create_label_insert(p)
    \/ receive /\ UNCHANGED inflight

LabelRaceSpec ==
    (Init /\ variant = "guard") /\ [][LabelRaceNext /\ UNCHANGED bystanders]_vars

\* C25: whatever the interleaving of the create_label requests of one user,
\* the store never holds two labels of that user with the same name.
C25_UniqueUnderConcurrency ==
    \A l1 \in DOMAIN labels : \A l2 \in DOMAIN labels \ {l1} :
        ~(labels[l1].user_id = labels[l2].user_id /\ labels[l1].name = labels[l2].name)

\* create_task of the inline generation up to its insert: the caller is
\* resolved and every label of the body was found to be the caller's
inline_create_task_check(p, token, label_ids) ==
    /\ variant = "inline"
    /\ p \notin DOMAIN inflight
    /\ LET auth == get_current_active_user(token)
       IN  IF auth.status # 200
           THEN /\ resp' = Resp("create_task", token, auth.status, {}, 0, tasks)
                /\ UNCHANGED inflight
           ELSE \E u \in auth.uid :
                IF check_labels(label_ids, u) # 0
                THEN /\ resp' = Resp("create_task", token, check_labels(label_ids, u),
                                     auth.uid, 0, tasks)
                     /\ UNCHANGED inflight
                ELSE /\ inflight' = Insert(inflight, p,
                            [op |-> "create_task", token |-> token, user |-> u,
                             labels |-> label_ids])
                     /\ resp' = resp
    /\ UNCHANGED <<variant, store, wallet, now>>

\* the rest of create_task: insert_one of the document built from the body
inline_create_task_insert(p) ==
    /\ variant = "inline"
    /\ p \in DOMAIN inflight
    /\ inflight[p].op = "create_task"
    /\ next_task <= MaxTasks
    /\ tasks' = Insert(tasks, next_task,
                       TaskDoc(inflight[p].user, "incomplete", inflight[p].labels))
    /\ next_task' = next_task + 1
    /\ resp' = Resp("create_task", inflight[p].token, 201, {inflight[p].user},
                    next_task, tasks)
    /\ inflight' = Remove(inflight, p)
    /\ UNCHANGED <<variant, users, labels, next_user, next_label, wallet, now>>

\* delete_label of the inline generation up to its update_many: delete_one
\* scoped by the caller
inline_delete_label_delete(p, token, label_id) ==
    /\ variant = "inline"
    /\ p \notin DOMAIN inflight
    /\ LET auth == get_current_active_user(token)
           status == IF auth.status # 200 THEN auth.status
                     ELSE IF ~ObjectId_is_valid(label_id) THEN 400
                     ELSE IF ~(label_id \in DOMAIN labels /\ labels[label_id].user_id \in auth.uid)
                          THEN 404
                     ELSE 204
       IN  IF status # 204
           THEN /\ resp' = Resp("delete_label", token, status, auth.uid, label_id, labels)
                /\ UNCHANGED <<labels, inflight>>
           ELSE /\ labels' = Remove(labels, label_id)
                /\ inflight' = Insert(inflight, p,
                        [op |-> "delete_label", token |-> token,
                         user |-> labels[label_id].user_id, label |-> label_id])
                /\ resp' = resp
    /\ UNCHANGED <<variant, users, tasks, next_user, next_label, next_task, wallet, now>>

\* the rest of delete_label: $pull of the id from the caller's tasks
inline_delete_label_pull(p) ==
    /\ variant = "inline"
    /\ p \in DOMAIN inflight
    /\ inflight[p].op = "delete_label"
    /\ tasks' = [t \in DOMAIN tasks |->
                    IF tasks[t].user_id = inflight[p].user
                    THEN [tasks[t] EXCEPT !.labels = @ \ {inflight[p].label}]
                    ELSE tasks[t]]
    /\ resp' = [op |-> "delete_label", token |-> inflight[p].token, status |-> 204,
                caller |-> {inflight[p].user}, id |-> inflight[p].label,
                existed |-> TRUE, owner |-> {inflight[p].user}]
    /\ inflight' = Remove(inflight, p)
    /\ UNCHANGED <<variant, users, labels, next_user, next_label, next_task, wallet, now>>

TaskRaceNext ==
    \/ resp = NoResp /\ SessionNext /\ UNCHANGED inflight
    \/ resp = NoResp /\ \E p \in Workers, token \in Presentable, ls \in LabelIdLists :
            inline_create_task_check(p, token, ls)
    \/ resp = NoResp /\ \E p \in Workers : inline_create_task_insert(p)
    \/ resp = NoResp /\ \E p \in Workers, token \in Presentable, id \in LabelIdInputs :
            inline_delete_label_delete(p, token, id)
    \/ resp = NoResp /\ \E p \in Workers : inline_delete_label_pull(p)
    \/ receive /\ UNCHANGED inflight

TaskRaceSpec ==
    (Init /\ variant = "inline") /\ [][TaskRaceNext /\ UNCHANGED bystanders]_vars

\* C26: every id in a task's labels is an existing label of the task's owner,
\* save for a label whose delete_label has not yet pulled it from the tasks.
C26_ReferentialIntegrity ==
    \A t \in DOMAIN tasks : \A l \in tasks[t].labels :
        \/ l \in DOMAIN labels /\ labels[l].user_id = tasks[t].user_id
        \/ \E p \in DOMAIN inflight :
              inflight[p].op = "delete_label" /\ inflight[p].label = l

\* ---------------------------------------------------------------------------
\* Refresh tokens (backend/core/security.py create_refresh_token)
\* ---------------------------------------------------------------------------

REFRESH_TOKEN_EXPIRE_DAYS == 7

\* create_refresh_token(data) at time t, the clock counting minutes
create_refresh_token(data, t) ==
    jwt_encode(data, t + REFRESH_TOKEN_EXPIRE_DAYS * 1440, "refresh")

\* a refresh token is made for a stored user, or for no subject
call_create_refresh_token ==
    \E data \in {<<>>} \cup {<<IdSub(u)>> : u \in DOMAIN users} :
        /\ wallet' = [token |-> create_refresh_token(data, now),
                      src |-> "create_refresh_token", iat |-> now,
                      delta |-> NoDelta, data |-> data,
                      owner |-> {data[i].id : i \in DOMAIN data}]
        /\ UNCHANGED <<variant, store, now, resp>>

RefreshNext ==
    \/ resp = NoResp /\ SessionNext
    \/ resp = NoResp /\ \E token \in Presentable, id \in TaskIdInputs : guard_get_task(token, id)
    \/ receive
    \/ call_create_refresh_token
    \/ call_verify_token
    \/ Tick

RefreshSpec == (Init /\ variant = "guard") /\ [][RefreshNext /\ UNCHANGED machinery]_vars

\* C27: a token made by create_refresh_token is refused as a bearer token:
\* verify_token returns None for it and a protected route answers it 401.
C27_RefreshTokenRefused ==
    /\ (resp.op = "verify_token" /\ resp.call.src = "create_refresh_token")
            => resp.result.kind = "None"
    /\ (resp.op = "get_task" /\ resp.token.form = "jwt" /\ resp.token.sig = "valid"
            /\ resp.token.typ = "refresh")
            => (resp.status = 401 /\ resp.caller = {})

\* ---------------------------------------------------------------------------
\* The Beanie connection (backend/core/db.py)
\* ---------------------------------------------------------------------------

\* the requests that ask for the database
DbCallers == {1, 2, 3}

\* what get_database hands to its caller: the module's database global,
\* which the request then holds (mongo.held) until it ends
DbResp(p) ==
    [op |-> "get_database", caller |-> p, raised |-> FALSE,
     database |-> mongo'.database, initialised |-> mongo'.database \in mongo'.ready]

\* get_database: with database None it enters connect_to_mongo, which assigns
\* client and database and then awaits init_beanie; otherwise it yields database
get_database(p) ==
    /\ p \notin DOMAIN mongo.calls \cup DOMAIN mongo.held
    /\ IF mongo.database = "None"
       THEN /\ mongo' = [mongo EXCEPT !.database = "primary",
                                      !.calls = Insert(@, p, "primary")]
            /\ resp' = resp
       ELSE /\ mongo' = [mongo EXCEPT !.held = Insert(@, p, mongo.database)]
            /\ resp' = DbResp(p)

\* connect_to_mongo resumes after init_beanie and the ping of the handle it
\* made: on success get_database yields database; when the first attempt
\* fails, client and database are assigned the localhost handle and the
\* second attempt is awaited; when that fails too the exception is raised
connect_to_mongo(p, ok) ==
    /\ p \in DOMAIN mongo.calls
    /\ IF ok
       THEN /\ mongo' = [mongo EXCEPT !.ready = @ \cup {mongo.calls[p]},
                                      !.calls = Remove(@, p),
                                      !.held = Insert(@, p, mongo.database)]
            /\ resp' = DbResp(p)
       ELSE IF mongo.calls[p] = "primary"
       THEN /\ mongo' = [mongo EXCEPT !.database = "localhost",
                                      !.calls = Insert(@, p, "localhost")]
            /\ resp' = resp
       ELSE /\ mongo' = [mongo EXCEPT !.calls = Remove(@, p)]
            /\ resp' = [op |-> "get_database", caller |-> p, raised |-> TRUE]

\* the request that was given the database ends
request_done(p) ==
    /\ p \in DOMAIN mongo.held
    /\ mongo' = [mongo EXCEPT !.held = Remove(@, p)]
    /\ resp' = NoResp

DbNext ==
    \/ \E p \in DbCallers : get_database(p)
    \/ \E p \in DbCallers : request_done(p)
    \/ \E p \in DbCallers, ok \in BOOLEAN : connect_to_mongo(p, ok)

DbInit ==
    /\ variant = "guard"
    /\ users = EmptyColl /\ labels = EmptyColl /\ tasks = EmptyColl
    /\ next_user = 1 /\ next_label = 1 /\ next_task = 1
    /\ wallet = NoWallet
    /\ now = 0
    /\ resp = NoResp
    /\ MachineryInit

DbSpec ==
    DbInit /\ [][DbNext /\ UNCHANGED <<variant, store, wallet, now, cache, environment,
                                       error_tracker, retry, limiter, inflight>>]_vars

\* C28: a database handle that get_database yields has completed init_beanie
\* and the ping.
C28_YieldedHandleInitialised ==
    /\ (resp.op = "get_database" /\ ~resp.raised) => resp.initialised
    /\ \A p \in DOMAIN mongo.held : mongo.held[p] \in mongo.ready

\* ---------------------------------------------------------------------------
\* CSRF tokens (backend/middleware/security.py)
\* ---------------------------------------------------------------------------
\* A token string is the sequence of its ":"-separated fields.

max_age == 1

CSRF_SECRET == "csrf-secret"

\* secrets.token_urlsafe(32): random strings, which hold no ":"
UrlsafeTokens == {"q0J5", "Zx_8"}

\* time.time() when the clock shows t: seconds since 1970, far beyond max_age
time_time(t) == 1000 + t

RECURSIVE join(_)
join(fields) ==
    IF fields = <<>> THEN ""
    ELSE IF Len(fields) = 1 THEN fields[1]
    ELSE fields[1] \o ":" \o join(Tail(fields))

\* hashlib.sha256(data.encode()).hexdigest()[:16], taken as free of collisions
sha256_16(data) == "sha256(" \o data \o ")"

\* generate_csrf_token() with the random part token, at time t
generate_csrf_token(token, t) ==
    LET timestamp == ToString(time_time(t))
        data == join(<<token, timestamp, CSRF_SECRET>>)
    IN  <<token, sha256_16(data)>>

\* int(s): the number a decimal string stands for, or ValueError
int_of(s) ==
    IF \E n \in 0..(time_time(MaxTime)) : ToString(n) = s
    THEN [kind |-> "int", n |-> CHOOSE n \in 0..(time_time(MaxTime)) : ToString(n) = s]
    ELSE [kind |-> "ValueError"]

\* verify_csrf_token(token, max_age) at time t; every exception is caught
verify_csrf_token(token, t) ==
    IF Len(token) < 2 THEN FALSE
    ELSE LET token_part == SubSeq(token, 1, Len(token) - 1)
             hash_part == token[Len(token)]
             timestamp == IF Len(token_part) >= 2 THEN int_of(token_part[2])
                          ELSE [kind |-> "int", n |-> 0]
         IN  IF timestamp.kind = "ValueError" THEN FALSE
             ELSE IF time_time(t) - timestamp.n > max_age THEN FALSE
             ELSE hash_part = sha256_16(join(token_part \o <<CSRF_SECRET>>))

call_generate_csrf_token ==
    \E token \in UrlsafeTokens :
        /\ wallet' = [NoWallet EXCEPT !.token = generate_csrf_token(token, now),
                                      !.src = "generate_csrf_token", !.iat = now]
        /\ UNCHANGED <<variant, store, now, resp>>

\* strings the application never generated: empty, without ":", with a hash
\* that is not the secret's, with a timestamp field that is no number
call_forge_csrf_token ==
    \E token \in {<<>>, <<"q0J5">>, <<"q0J5", "0123456789abcdef">>,
                  <<"q0J5", "soon", sha256_16("q0J5:soon:guess")>>,
                  <<"q0J5", ToString(time_time(now)),
                    sha256_16(join(<<"q0J5", ToString(time_time(now)), "guess">>))>>} :
        /\ wallet' = [NoWallet EXCEPT !.token = token, !.src = "client", !.iat = now]
        /\ UNCHANGED <<variant, store, now, resp>>

call_verify_csrf_token ==
    /\ wallet.src \in {"generate_csrf_token", "client"}
    /\ resp' = [op |-> "verify_csrf_token", at |-> now, src |-> wallet.src,
                iat |-> wallet.iat, result |-> verify_csrf_token(wallet.token, now)]
    /\ UNCHANGED <<variant, store, wallet, now>>

CsrfNext ==
    \/ call_generate_csrf_token
    \/ call_forge_csrf_token
    \/ call_verify_csrf_token
    \/ Tick

CsrfSpec == TokenInit /\ [][CsrfNext /\ UNCHANGED machinery]_vars

\* C29: a token made by generate_csrf_token is verified while it is no older
\* than max_age and rejected afterwards; a string the application did not
\* make is rejected; the result is always a boolean.
C29_CsrfRoundTrip ==
    resp.op = "verify_csrf_token" =>
        /\ resp.result \in BOOLEAN
        /\ resp.src = "generate_csrf_token" => resp.result = (resp.at - resp.iat <= max_age)
        /\ resp.src = "client" => ~resp.result

\* the rejecting half alone: what the client made up is refused
CsrfForgeryRefused ==
    (resp.op = "verify_csrf_token" /\ resp.src = "client") => ~resp.result

\* ---------------------------------------------------------------------------
\* ErrorTracker bookkeeping (backend/core/error_handling.py)
\* ---------------------------------------------------------------------------

MaxTracked == 5

\* error_tracker.track_error(error); the caller keeps every error it reported
call_track_error ==
    \E error \in Errors :
        /\ Len(wallet.data) < MaxTracked
        /\ LET error_id == uuid4
           IN  /\ error_tracker' = track_error(error, error_id)
               /\ resp' = [op |-> "track_error", error |-> error, id |-> error_id]
        /\ wallet' = [wallet EXCEPT !.data = Append(@, error)]
        /\ UNCHANGED <<variant, store, now, cache, environment, retry, limiter,
                       inflight, mongo>>

\* error_tracker.get_error_stats()
call_get_error_stats ==
    /\ resp' = [op |-> "get_error_stats", stats |-> get_error_stats]
    /\ UNCHANGED <<variant, store, wallet, now, cache, environment, error_tracker,
                   retry, limiter, inflight, mongo>>

TrackerNext ==
    \/ call_track_error
    \/ call_get_error_stats

TrackerSpec == ErrorInit /\ [][TrackerNext]_vars

\* C30: recent_errors never holds more than max_recent_errors entries, they
\* are the most recently tracked errors in arrival order, and total_errors is
\* the number of track_error calls made, the sum of the per-type counts.
C30_BoundedBookkeeping ==
    LET calls == wallet.data
        n == Len(calls)
        recent == error_tracker.recent_errors
        k == Len(recent)
    IN  /\ k <= max_recent_errors
        /\ k = IF n < max_recent_errors THEN n ELSE max_recent_errors
        /\ \A i \in 1..k :
             /\ recent[i].type = calls[n - k + i].kind
             /\ recent[i].message = error_str(calls[n - k + i])
        /\ get_error_stats.total_errors = n
        /\ get_error_stats.recent_errors_count = k
        /\ \A type \in {"AppError", "HTTPException", "Exception"} :
             Cardinality({i \in 1..n : calls[i].kind = type})
                 = IF type \in DOMAIN error_tracker.error_counts
                   THEN error_tracker.error_counts[type] ELSE 0
        /\ resp.op = "get_error_stats" =>
             /\ resp.stats.total_errors = n
             /\ resp.stats.recent_errors = recent

\* more errors were tracked than recent_errors keeps, so the oldest are gone
C30_Witness ==
    /\ resp.op = "get_error_stats"
    /\ Len(wallet.data) > max_recent_errors
    /\ Len(error_tracker.recent_errors) = max_recent_errors
    /\ resp.stats.total_errors = Len(wallet.data)

=============================================================================
